---- MODULE Spec2Model ----
(***************************************************************************)
(* A model of the timing core of MamoraBotV3:                              *)
(*   - src/src/engine/Scheduler.js      (the candle-boundary scheduler)    *)
(*   - src/src/data/websocketClient.js  (the realtime feed client, its     *)
(*     reconnection, its clock synchronisation, its tick buffers and its   *)
(*     subscribers)                                                        *)
(*   - src/src/workers/indicators.worker.js  (candle building)             *)
(*   - src/src/engine/StrategyEngine.js  (strategy creation, loading and   *)
(*     evaluation against the external store, the built-in strategies)     *)
(*   - src/src/engine/indicators/index.js  (the streaming indicators)      *)
(* Time is in milliseconds.  The JavaScript event loop runs one handler at *)
(* a time to completion, so every handler is one atomic action.            *)
(***************************************************************************)
EXTENDS Integers, Sequences, FiniteSets, TLC

VARIABLES
  now,               \* Date.now(): the local clock
  clientKind,        \* which object the module exports as realtimeClient
  nextId,            \* the id the next setTimeout / setInterval returns
  jobs,              \* Scheduler.jobs: jobId -> {timeoutId, nextExecution}
  timeouts,          \* pending setTimeout timers armed by scheduleNext
  timingErrors,      \* Scheduler.timingErrors
  nScheduled,        \* calls of scheduleAtCandleBoundary so far
  nFired,            \* scheduler timers fired so far
  cancelledIds,      \* cancelled job ids -> who cancelled ("app", "callback")
  ws,                \* WebSocketClient.ws: the current socket (0: null)
  sockets,           \* readyState of every WebSocket created so far
  isConnected,       \* WebSocketClient.isConnected
  reconnectAttempts, \* WebSocketClient.reconnectAttempts
  clockOffset,       \* WebSocketClient.clockOffset, in half milliseconds
  lastPingTime,      \* WebSocketClient.lastPingTime (0: null)
  pingInterval,      \* WebSocketClient.pingInterval (0: null)
  clockSyncInterval, \* WebSocketClient.clockSyncInterval (0: unset)
  tickBuffers,       \* WebSocketClient.tickBuffers: symbol -> ticks
  reconnectTimers,   \* pending setTimeout timers armed by attemptReconnect
  intervals,         \* live setInterval timers of the client
  pings,             \* pings sent and not yet answered, oldest first
  attempts,          \* reconnections scheduled since the last successful open
  pushed,            \* every tick handed to processTick, per symbol, in order
  nConnects,         \* connect() calls made by the application
  nCloses,           \* open sockets closed by the network so far
  nMessages,         \* tick and server_time messages delivered by the exploration
  subscribers,       \* WebSocketClient.subscribers: symbol -> handlers, in order
  unsubs,            \* the unsubscribe functions subscribe() has returned
  sent,              \* subscribe / unsubscribe messages sent upstream
  indicators,        \* IndicatorWorker.indicators: id -> {indicator, type}
  candleBuilders,    \* IndicatorWorker.candleBuilders: key -> builder
  heap,              \* the candle objects the worker has created, by reference
  emitted,           \* completed candles returned so far, as they were returned
  ingested,          \* ticks handed to buildCandle so far, per key
  sinceOpen,         \* ticks ingested since the open candle of a key was created
  strategyRows,      \* rows of the external store's 'strategies' table
  signalRows,        \* rows of the external store's 'signals' table
  nCalls,            \* calls of the worker and of the strategy engine so far
  indicator,         \* one indicator object: its kind, parameters and fields
  twin,              \* an object constructed afresh at the last reset()
  inputs,            \* what update was given since construction or the last reset()
  outputs,           \* what update returned for each of them
  twinOutputs,       \* what the twin's update returned for each of them
  strat,             \* one strategy object: its kind, parameters and indicators
  evaluations,       \* the evaluate calls made on it so far and what each returned
  inbox,             \* messages posted to the worker and not yet handled, oldest first
  outbox,            \* messages the worker has posted back, in order
  posted,            \* every message posted to the worker so far, in order
  fnArgs,            \* the arguments of the last direct call of a pure function
  fnResult,          \* what that call returned
  lastEvent          \* what the last step did (observation only)

fixedVars == <<clientKind, fnArgs, fnResult>>

envVars == <<now, fixedVars>>

schedVars == <<jobs, timeouts, timingErrors, nScheduled, nFired, cancelledIds>>

connVars == <<ws, sockets, isConnected, reconnectAttempts, pingInterval,
              clockSyncInterval, reconnectTimers, intervals, attempts, nConnects,
              nCloses>>

clockVars == <<clockOffset, lastPingTime, pings>>

subVars == <<subscribers, unsubs, sent>>

tickVars == <<tickBuffers, pushed>>

workerVars == <<indicators, candleBuilders, heap, emitted, ingested, sinceOpen>>

engineVars == <<strategyRows, signalRows>>

indVars == <<indicator, twin, inputs, outputs, twinOutputs>>

stratVars == <<strat, evaluations>>

msgVars == <<inbox, outbox, posted>>

calcVars == <<indVars, stratVars, msgVars>>

\* what the scheduler and the connection handlers never touch
appVars == <<subVars, workerVars, engineVars, calcVars, nCalls>>

vars == <<now, clientKind, nextId, jobs, timeouts, timingErrors,
          nScheduled, nFired, cancelledIds, ws, sockets, isConnected,
          reconnectAttempts, clockOffset, lastPingTime, pingInterval,
          clockSyncInterval, tickBuffers, reconnectTimers, intervals, pings,
          attempts, pushed, nConnects, nCloses, nMessages, fnArgs, fnResult,
          subscribers, unsubs, sent, indicators, candleBuilders, heap, emitted, ingested,
          sinceOpen, strategyRows, signalRows, nCalls, indicator, twin, inputs,
          outputs, twinOutputs, strat, evaluations, inbox, outbox, posted,
          lastEvent>>

----------------------------------------------------------------------------
(* Bounds of the exploration *)

MaxTime == 33000
MaxSchedTime == 3100
MaxSchedules == 2
MaxFirings == 3
MaxSockets == 6
MaxConnects == 1
MaxCloses == 1
MaxMessages == 3
MaxBufLen == 3
MaxPeriods == 2
MaxSubscribes == 2
MaxUnsubscribeCalls == 2
MaxFanOutTicks == 2
MaxBuilds == 4
MaxEngineCalls == 3
MaxStrategies == 2
MaxIndicatorCalls == 5
MaxEvaluations == 5
MaxPosts == 3
MaxBatches == 2
MaxBatchLen == 3

----------------------------------------------------------------------------
(* Constants of the program *)

\* Scheduler.js keeps the last 1000 timing errors
TimingErrorsKept == 1000

maxReconnectAttempts == 5

reconnectDelay == 1000

TickBufferCapacity == 2048

ClockSyncPeriod == 30000

HeartbeatPeriod == 10000

----------------------------------------------------------------------------
(* Inputs *)

Symbols == {"EURUSD", "GBPUSD"}
Timeframes == {"1s"}
Offsets == {5, 1500}
Callbacks == {"log", "throws", "cancelsJob", "cancelsAll"}
StartTimes == {995, 1000}
Lateness == {0, 2}
Rtts == {7}
ServerSkews == {-40, 10}
RawPrices == {"1.0850", "1.0900"}
Handlers == {"hLog", "hThrows", "hOnce"}

----------------------------------------------------------------------------
(* Generic helpers *)

Max(a, b) == IF a >= b THEN a ELSE b

Min(a, b) == IF a <= b THEN a ELSE b

EmptyMap == [x \in {} |-> 0]

Put(f, k, v) == [x \in DOMAIN f \cup {k} |-> IF x = k THEN v ELSE f[x]]

Remove(f, k) == [x \in DOMAIN f \ {k} |-> f[x]]

\* the record of cancelled job ids, with the ids of `ids` cancelled by `who`
MarkCancelled(f, ids, who) ==
  [x \in DOMAIN f \cup ids |-> IF x \in ids THEN who ELSE f[x]]

\* JavaScript's % takes the sign of the dividend
JsRem(a, b) == IF a >= 0 THEN a % b ELSE -((-a) % b)

----------------------------------------------------------------------------
(* Scheduler *)

timeframes ==
  ("1s" :> 1000) @@ ("5s" :> 5000) @@ ("15s" :> 15000) @@ ("30s" :> 30000) @@
  ("1m" :> 60000) @@ ("5m" :> 300000) @@ ("15m" :> 900000) @@
  ("30m" :> 1800000) @@ ("1h" :> 3600000) @@ ("4h" :> 14400000) @@
  ("1d" :> 86400000)

\* new Date(x) drops the fraction of x (towards zero); x2 is x in half ms
DateOf2(x2) == IF x2 >= 0 THEN x2 \div 2 ELSE -((-x2) \div 2)

\* realtimeClient.getServerTime().getTime(): the mock client returns the
\* local time, the WebSocket client adds its clock offset
getServerTime ==
  IF clientKind = "mock" THEN now ELSE DateOf2(2 * now + clockOffset)

getTickBuffer(symbol) ==
  IF symbol \in DOMAIN tickBuffers THEN tickBuffers[symbol] ELSE <<>>

\* a variant that takes an instant on a boundary for its own next boundary
getNextCandleBoundaryCeil(timestamp, intervalMs) ==
  LET remainder == JsRem(timestamp, intervalMs)
  IN  IF remainder = 0 THEN timestamp ELSE timestamp - remainder + intervalMs

getNextCandleBoundary(timestamp, intervalMs) ==
  LET remainder == JsRem(timestamp, intervalMs)
  IN  timestamp - remainder + intervalMs

\* The timer scheduleNext arms for closure c (the arguments and the jobId of
\* one scheduleAtCandleBoundary call), to be registered under timer id `id`.
scheduleNext(c, id) ==
  LET serverTime == getServerTime
      intervalMs == timeframes[c.timeframe]
      nextBoundary == getNextCandleBoundary(serverTime, intervalMs)
      delay == nextBoundary - serverTime - c.offset
      nextNextBoundary == nextBoundary + intervalMs
      nextDelay == nextNextBoundary - serverTime - c.offset
  IN  IF delay <= 0
      THEN [id |-> id, closure |-> c, delay |-> Max(0, nextDelay),
            due |-> now + Max(0, nextDelay), expectedTime |-> nextNextBoundary,
            armedAt |-> serverTime, nextBoundary |-> nextBoundary]
      ELSE [id |-> id, closure |-> c, delay |-> delay,
            due |-> now + delay, expectedTime |-> nextBoundary,
            armedAt |-> serverTime, nextBoundary |-> nextBoundary]

NoTick == [symbol |-> "null", ts |-> 0, price |-> 0]

getLatestTick(symbol) ==
  LET buffer == getTickBuffer(symbol)
  IN  IF Len(buffer) > 0 THEN buffer[Len(buffer)] ELSE NoTick

RECURSIVE scanBackward(_, _, _)
scanBackward(tickBuffer, i, boundaryTime) ==
  IF i < 1 THEN NoTick
  ELSE IF tickBuffer[i].ts <= boundaryTime THEN tickBuffer[i]
  ELSE scanBackward(tickBuffer, i - 1, boundaryTime)

RECURSIVE scanForward(_, _, _)
scanForward(tickBuffer, i, boundaryTime) ==
  IF i > Len(tickBuffer) THEN NoTick
  ELSE IF tickBuffer[i].ts <= boundaryTime THEN tickBuffer[i]
  ELSE scanForward(tickBuffer, i + 1, boundaryTime)

\* a variant that scans from the oldest tick
findTickFromOldest(tickBuffer, boundaryTime) ==
  scanForward(tickBuffer, 1, boundaryTime)

findTickAtBoundary(tickBuffer, boundaryTime) ==
  IF Len(tickBuffer) = 0 THEN NoTick
  ELSE scanBackward(tickBuffer, Len(tickBuffer), boundaryTime)

clearTimeout(pending, id) == Remove(pending, id)

\* cancelJob on the scheduler state s = [jobs, timeouts]; ret is its result
\* a variant that reports success whether or not the job exists
cancelJobAlwaysTrue(s, jobId) ==
  IF jobId \in DOMAIN s.jobs
  THEN [jobs |-> Remove(s.jobs, jobId),
        timeouts |-> clearTimeout(s.timeouts, s.jobs[jobId].timeoutId),
        ret |-> TRUE]
  ELSE [jobs |-> s.jobs, timeouts |-> s.timeouts, ret |-> TRUE]

cancelJob(s, jobId) ==
  IF jobId \in DOMAIN s.jobs
  THEN [jobs |-> Remove(s.jobs, jobId),
        timeouts |-> clearTimeout(s.timeouts, s.jobs[jobId].timeoutId),
        ret |-> TRUE]
  ELSE [jobs |-> s.jobs, timeouts |-> s.timeouts, ret |-> FALSE]

cancelAllJobs(s) ==
  [jobs |-> EmptyMap,
   timeouts |-> [id \in DOMAIN s.timeouts \ {s.jobs[j].timeoutId : j \in DOMAIN s.jobs}
                   |-> s.timeouts[id]],
   ret |-> TRUE]

\* What the callback handed to scheduleAtCandleBoundary does to the scheduler
\* when it is invoked: the callbacks differ in whether they throw and in
\* whether they cancel from inside the firing.
runCallback(s, c) ==
  CASE c.callback = "cancelsJob" -> cancelJob(s, c.jobId)
    [] c.callback = "cancelsAll" -> cancelAllJobs(s)
    [] OTHER -> [jobs |-> s.jobs, timeouts |-> s.timeouts, ret |-> FALSE]

\* a variant that drops the newest sample when the history is full
recordTimingErrorDroppingNewest(c, expectedTime) ==
  LET actualTime == getServerTime
      appended == Append(timingErrors,
                  [symbol |-> c.symbol, timeframe |-> c.timeframe,
                   expectedTime |-> expectedTime, actualTime |-> actualTime,
                   errorMs |-> actualTime - expectedTime, timestamp |-> now])
  IN  IF Len(appended) > TimingErrorsKept
      THEN SubSeq(appended, 1, TimingErrorsKept) ELSE appended

\* timingErrors after executeAtBoundary has recorded one firing
recordTimingError(c, expectedTime) ==
  LET actualTime == getServerTime
      appended == Append(timingErrors,
                  [symbol |-> c.symbol, timeframe |-> c.timeframe,
                   expectedTime |-> expectedTime, actualTime |-> actualTime,
                   errorMs |-> actualTime - expectedTime, timestamp |-> now])
  IN  IF Len(appended) > TimingErrorsKept THEN Tail(appended) ELSE appended

\* no indicator and no strategy has been constructed yet
NoIndicator == [type |-> "none"]

NoStrategy == [kind |-> "none"]

\* the subscriber map of the client, the IndicatorWorker and the
\* StrategyEngine after construction; the external store holds no rows yet
InitApp ==
  /\ subscribers = EmptyMap
  /\ unsubs = <<>>
  /\ sent = <<>>
  /\ indicators = EmptyMap
  /\ candleBuilders = EmptyMap
  /\ heap = <<>>
  /\ emitted = <<>>
  /\ ingested = EmptyMap
  /\ sinceOpen = EmptyMap
  /\ strategyRows = <<>>
  /\ signalRows = <<>>
  /\ nCalls = 0
  /\ indicator = NoIndicator
  /\ twin = NoIndicator
  /\ inputs = <<>>
  /\ outputs = <<>>
  /\ twinOutputs = <<>>
  /\ strat = NoStrategy
  /\ evaluations = <<>>
  /\ inbox = <<>>
  /\ outbox = <<>>
  /\ posted = <<>>

Init ==
  /\ InitApp
  /\ now \in StartTimes
  /\ clientKind \in {"ws", "mock"}
  /\ nextId = 1
  /\ jobs = EmptyMap
  /\ timeouts = EmptyMap
  /\ timingErrors = <<>>
  /\ nScheduled = 0
  /\ nFired = 0
  /\ cancelledIds = EmptyMap
  /\ ws = 0
  /\ sockets = <<>>
  /\ isConnected = FALSE
  /\ reconnectAttempts = 0
  /\ clockOffset = 0
  /\ lastPingTime = 0
  /\ pingInterval = 0
  /\ clockSyncInterval = 0
  /\ tickBuffers = EmptyMap
  /\ reconnectTimers = EmptyMap
  /\ intervals = EmptyMap
  /\ pings = <<>>
  /\ attempts = 0
  /\ pushed = [s \in Symbols |-> <<>>]
  /\ nConnects = 0
  /\ nCloses = 0
  /\ nMessages = 0
  /\ fnArgs = [fn |-> "none"]
  /\ fnResult = 0
  /\ lastEvent = [type |-> "init"]

scheduleAtCandleBoundary(symbol, timeframe, callback, offset) ==
  /\ nScheduled < MaxSchedules
  /\ timeframe \in DOMAIN timeframes
  /\ LET jobId == <<symbol, timeframe, now>>
         c == [jobId |-> jobId, symbol |-> symbol, timeframe |-> timeframe,
               callback |-> callback, offset |-> offset]
         t == scheduleNext(c, nextId)
     IN  /\ timeouts' = Put(timeouts, nextId, t)
         /\ jobs' = Put(jobs, jobId, [timeoutId |-> nextId, nextExecution |-> t.expectedTime])
         /\ cancelledIds' = Remove(cancelledIds, jobId)
         /\ lastEvent' = [type |-> "schedule", job |-> jobId, timer |-> nextId]
  /\ nextId' = nextId + 1
  /\ nScheduled' = nScheduled + 1
  /\ UNCHANGED <<envVars, timingErrors, nFired, connVars, clockVars, tickVars, nMessages, appVars>>

\* The timer callback of scheduleNext: executeAtBoundary, then the re-arm.
\* With the mock client executeAtBoundary throws a TypeError at
\* realtimeClient.getTickBuffer (the mock has no such method), after it has
\* recorded the timing error and before it reaches the callback and the re-arm.
FireTimeout(id) ==
  /\ id \in DOMAIN timeouts
  /\ timeouts[id].due <= now
  /\ nFired < MaxFirings
  /\ LET t == timeouts[id]
         c == t.closure
         s0 == [jobs |-> jobs, timeouts |-> clearTimeout(timeouts, id)]
         threw == clientKind = "mock"
         boundaryTick == IF threw THEN NoTick
                         ELSE findTickAtBoundary(getTickBuffer(c.symbol), t.expectedTime)
         s1 == IF threw THEN [jobs |-> s0.jobs, timeouts |-> s0.timeouts, ret |-> FALSE]
               ELSE runCallback(s0, c)
         rearm == ~threw /\ c.jobId \in DOMAIN s1.jobs
         nt == scheduleNext(c, nextId)
     IN  /\ timingErrors' = recordTimingError(c, t.expectedTime)
         /\ timeouts' = IF rearm THEN Put(s1.timeouts, nextId, nt) ELSE s1.timeouts
         /\ jobs' = IF rearm
                    THEN Put(s1.jobs, c.jobId,
                             [timeoutId |-> nextId, nextExecution |-> nt.expectedTime])
                    ELSE s1.jobs
         /\ nextId' = IF rearm THEN nextId + 1 ELSE nextId
         /\ cancelledIds' = MarkCancelled(cancelledIds, DOMAIN s0.jobs \ DOMAIN s1.jobs,
                                          "callback")
         /\ lastEvent' = [type |-> "fire", job |-> c.jobId, timer |-> id,
                          expectedTime |-> t.expectedTime, invoked |-> ~threw,
                          tick |-> boundaryTick, callback |-> c.callback,
                          cancelledBefore |-> IF c.jobId \in DOMAIN cancelledIds
                                              THEN cancelledIds[c.jobId] ELSE "no",
                          cancelledInside |-> c.jobId \in DOMAIN s0.jobs \ DOMAIN s1.jobs,
                          rearmed |-> rearm]
  /\ nFired' = nFired + 1
  /\ UNCHANGED <<envVars, nScheduled, connVars, clockVars, tickVars, nMessages, appVars>>

CancelJob(jobId) ==
  LET r == cancelJob([jobs |-> jobs, timeouts |-> timeouts], jobId)
  IN  /\ jobs' = r.jobs
      /\ timeouts' = r.timeouts
      /\ cancelledIds' = IF r.ret THEN MarkCancelled(cancelledIds, {jobId}, "app")
                         ELSE cancelledIds
      /\ lastEvent' = [type |-> "cancelJob", job |-> jobId, ret |-> r.ret]
      /\ UNCHANGED <<envVars, nextId, timingErrors, nScheduled, nFired,
                     connVars, clockVars, tickVars, nMessages, appVars>>

CancelAllJobs ==
  LET r == cancelAllJobs([jobs |-> jobs, timeouts |-> timeouts])
  IN  /\ jobs' = r.jobs
      /\ timeouts' = r.timeouts
      /\ cancelledIds' = MarkCancelled(cancelledIds, DOMAIN jobs, "app")
      /\ lastEvent' = [type |-> "cancelAllJobs"]
      /\ UNCHANGED <<envVars, nextId, timingErrors, nScheduled, nFired,
                     connVars, clockVars, tickVars, nMessages, appVars>>

----------------------------------------------------------------------------
(* WebSocketClient *)

ParseFloat ==
  ("1.0850" :> 10850) @@ ("1.0900" :> 10900) @@ ("1.0800" :> 10800)

\* a variant that evicts as soon as the buffer reaches its capacity
storeTickEvictingEarly(d) ==
  LET tick == [symbol |-> d.symbol, ts |-> DateOf2(2 * d.ts), price |-> ParseFloat[d.price]]
      buffer == Append(getTickBuffer(d.symbol), tick)
  IN  Put(tickBuffers, d.symbol,
          IF Len(buffer) >= TickBufferCapacity THEN Tail(buffer) ELSE buffer)

\* tickBuffers after processTick has stored the tick of message d
storeTick(d) ==
  LET serverTime == DateOf2(2 * d.ts)
      tick == [symbol |-> d.symbol, ts |-> serverTime, price |-> ParseFloat[d.price]]
      buffer == Append(getTickBuffer(d.symbol), tick)
  IN  Put(tickBuffers, d.symbol,
          IF Len(buffer) > TickBufferCapacity THEN Tail(buffer) ELSE buffer)

\* send(data): the message leaves only on an open current socket
CanSend == ws # 0 /\ sockets[ws] = "OPEN"

\* pings after send({type: 'ping'}) at this instant; the answer takes rtt ms
sendPing(inFlight, canSend, rtt, probe) ==
  IF canSend
  THEN Append(inFlight, [sock |-> ws, sentAt |-> now, due |-> now + rtt, probe |-> probe])
  ELSE inFlight

\* connect(): a new socket, unless the current one is open
connect(socks, cur) ==
  IF cur # 0 /\ socks[cur] = "OPEN"
  THEN [sockets |-> socks, ws |-> cur]
  ELSE [sockets |-> Append(socks, "CONNECTING"), ws |-> Len(socks) + 1]

\* the application calls realtimeClient.connect()
Connect ==
  /\ clientKind = "ws"
  /\ nConnects < MaxConnects
  /\ Len(sockets) < MaxSockets
  /\ LET r == connect(sockets, ws)
     IN  sockets' = r.sockets /\ ws' = r.ws
  /\ nConnects' = nConnects + 1
  /\ lastEvent' = [type |-> "connect"]
  /\ UNCHANGED <<envVars, nextId, schedVars, isConnected, reconnectAttempts,
                 pingInterval, clockSyncInterval, reconnectTimers, intervals,
                 attempts, nCloses, clockVars, tickVars, nMessages, appVars>>

\* ws.onopen of socket s: startClockSync (a first syncClock, then the 30 s
\* interval) and startHeartbeat (the 10 s interval)
OnOpen(s, rtt) ==
  /\ s \in 1..Len(sockets)
  /\ sockets[s] = "CONNECTING"
  /\ sockets' = [sockets EXCEPT ![s] = "OPEN"]
  /\ isConnected' = TRUE
  /\ reconnectAttempts' = 0
  /\ attempts' = 0
  /\ pings' = sendPing(pings, ws # 0 /\ sockets'[ws] = "OPEN", rtt, TRUE)
  /\ lastPingTime' = now
  /\ clockSyncInterval' = nextId
  /\ pingInterval' = nextId + 1
  /\ intervals' = Put(Put(intervals, nextId,
                          [kind |-> "clockSync", due |-> now + ClockSyncPeriod]),
                      nextId + 1, [kind |-> "heartbeat", due |-> now + HeartbeatPeriod])
  /\ nextId' = nextId + 2
  /\ lastEvent' = [type |-> "open", sock |-> s]
  /\ UNCHANGED <<envVars, schedVars, ws, reconnectTimers, nConnects, nCloses,
                 clockOffset, tickVars, nMessages, appVars>>

\* stopHeartbeat(): clears the two intervals the client still refers to
stopHeartbeat(live) ==
  [id \in DOMAIN live \ {pingInterval, clockSyncInterval} |-> live[id]]

\* a variant whose cap is off by one
attemptReconnectOnceMore(n) ==
  IF n > maxReconnectAttempts
  THEN [reconnectAttempts |-> n, delay |-> -1]
  ELSE [reconnectAttempts |-> n + 1, delay |-> reconnectDelay * 2 ^ ((n + 1) - 1)]

\* attemptReconnect() on attempt counter n: the counter afterwards, and the
\* delay of the reconnection it schedules (-1: none)
attemptReconnect(n) ==
  IF n >= maxReconnectAttempts
  THEN [reconnectAttempts |-> n, delay |-> -1]
  ELSE [reconnectAttempts |-> n + 1, delay |-> reconnectDelay * 2 ^ ((n + 1) - 1)]

\* The close of socket s (why: "close" of an open socket, "error" of a
\* connection attempt): isConnected = false, stopHeartbeat(),
\* attemptReconnect(); sched is the scheduler's jobs and timers afterwards.
closeSocket(s, why, sched) ==
  LET r == attemptReconnect(reconnectAttempts)
  IN  /\ sockets' = [sockets EXCEPT ![s] = "CLOSED"]
      /\ isConnected' = FALSE
      /\ intervals' = stopHeartbeat(intervals)
      /\ pingInterval' = 0
      /\ clockSyncInterval' = 0
      /\ reconnectAttempts' = r.reconnectAttempts
      /\ IF r.delay >= 0
         THEN /\ reconnectTimers' = Put(reconnectTimers, nextId,
                     [due |-> now + r.delay, delay |-> r.delay, attempt |-> attempts + 1])
              /\ nextId' = nextId + 1
              /\ attempts' = attempts + 1
         ELSE UNCHANGED <<reconnectTimers, nextId, attempts>>
      /\ pings' = SelectSeq(pings, LAMBDA p : p.sock # s)
      /\ lastEvent' = [type |-> why, sock |-> s, scheduled |-> r.delay >= 0,
                       attemptsBefore |-> attempts]
      /\ nCloses' = IF why = "close" THEN nCloses + 1 ELSE nCloses
      /\ jobs' = sched.jobs
      /\ timeouts' = sched.timeouts
      /\ UNCHANGED <<envVars, timingErrors, nScheduled, nFired, cancelledIds, ws,
                     nConnects, clockOffset, lastPingTime, tickVars, nMessages, appVars>>

\* a variant that tears the scheduler down with the connection
oncloseCancellingJobs(s, why) ==
  closeSocket(s, why, cancelAllJobs([jobs |-> jobs, timeouts |-> timeouts]))

\* ws.onclose of socket s does not touch the scheduler
onclose(s, why) == closeSocket(s, why, [jobs |-> jobs, timeouts |-> timeouts])

\* an open socket is closed by the network or the server
OnClose(s) ==
  /\ s \in 1..Len(sockets)
  /\ sockets[s] = "OPEN"
  /\ nCloses < MaxCloses
  /\ onclose(s, "close")

\* ws.close() on this socket: the close event follows later
close(socks, s) ==
  IF socks[s] \in {"CONNECTING", "OPEN"} THEN [socks EXCEPT ![s] = "CLOSING"] ELSE socks

\* the application calls disconnect() on a client that holds a socket
Disconnect ==
  /\ clientKind = "ws"
  /\ ws # 0
  /\ intervals' = stopHeartbeat(intervals)
  /\ pingInterval' = 0
  /\ clockSyncInterval' = 0
  /\ sockets' = close(sockets, ws)
  /\ ws' = 0
  /\ isConnected' = FALSE
  /\ subscribers' = EmptyMap
  /\ lastEvent' = [type |-> "disconnect", sock |-> ws]
  /\ UNCHANGED <<envVars, nextId, schedVars, reconnectAttempts, reconnectTimers,
                 attempts, nConnects, nCloses, clockVars, tickVars, nMessages,
                 unsubs, sent, workerVars, engineVars, calcVars, nCalls>>

\* the close event of a socket that disconnect() closed: its onclose handler
\* is still attached
OnCloseAfterDisconnect(s) ==
  /\ s \in 1..Len(sockets)
  /\ sockets[s] = "CLOSING"
  /\ onclose(s, "close")

\* a connection attempt fails: onerror rejects the promise, then onclose runs
OnError(s) ==
  /\ s \in 1..Len(sockets)
  /\ sockets[s] = "CONNECTING"
  /\ onclose(s, "error")

\* the timer of attemptReconnect fires: connect()
ReconnectFire(id) ==
  /\ id \in DOMAIN reconnectTimers
  /\ reconnectTimers[id].due <= now
  /\ Len(sockets) < MaxSockets
  /\ LET r == connect(sockets, ws)
     IN  sockets' = r.sockets /\ ws' = r.ws
  /\ reconnectTimers' = Remove(reconnectTimers, id)
  /\ lastEvent' = [type |-> "reconnect", timer |-> id]
  /\ UNCHANGED <<envVars, nextId, schedVars, isConnected, reconnectAttempts,
                 pingInterval, clockSyncInterval, intervals, attempts, nConnects,
                 nCloses, clockVars, tickVars, nMessages, appVars>>

\* the 10 s interval of startHeartbeat fires
HeartbeatFire(id, rtt) ==
  /\ id \in DOMAIN intervals
  /\ intervals[id].kind = "heartbeat"
  /\ intervals[id].due <= now
  /\ intervals' = [intervals EXCEPT ![id].due = now + HeartbeatPeriod]
  /\ pings' = IF isConnected THEN sendPing(pings, CanSend, rtt, FALSE) ELSE pings
  /\ lastEvent' = [type |-> "heartbeat", timer |-> id]
  /\ UNCHANGED <<envVars, nextId, schedVars, ws, sockets, isConnected,
                 reconnectAttempts, pingInterval, clockSyncInterval,
                 reconnectTimers, attempts, nConnects, nCloses, clockOffset,
                 lastPingTime, tickVars, nMessages, appVars>>

\* the 30 s interval of startClockSync fires: syncClock()
ClockSyncFire(id, rtt) ==
  /\ id \in DOMAIN intervals
  /\ intervals[id].kind = "clockSync"
  /\ intervals[id].due <= now
  /\ intervals' = [intervals EXCEPT ![id].due = now + ClockSyncPeriod]
  /\ IF isConnected
     THEN /\ pings' = sendPing(pings, CanSend, rtt, TRUE)
          /\ lastPingTime' = now
     ELSE UNCHANGED <<pings, lastPingTime>>
  /\ lastEvent' = [type |-> "clockSync", timer |-> id]
  /\ UNCHANGED <<envVars, nextId, schedVars, ws, sockets, isConnected,
                 reconnectAttempts, pingInterval, clockSyncInterval,
                 reconnectTimers, attempts, nConnects, nCloses, clockOffset,
                 tickVars, nMessages, appVars>>

\* the pings in flight on socket s, oldest first
PingsOn(s) == SelectSeq(pings, LAMBDA p : p.sock = s)

\* clockOffset after handlePong (in half milliseconds: rtt / 2 has a fraction
\* when rtt is odd)
handlePong(serverTime) ==
  IF lastPingTime = 0 THEN clockOffset
  ELSE LET rtt == now - lastPingTime
       IN  2 * (serverTime - now) + rtt

\* a 'pong' arrives on socket s: the server answers the pings in order, and
\* stamps its answer with its own clock, skew ms ahead of the local one
OnPong(s, skew) ==
  /\ s \in 1..Len(sockets)
  /\ sockets[s] = "OPEN"
  /\ Len(PingsOn(s)) > 0
  /\ LET answered == Head(PingsOn(s))
         i == CHOOSE k \in 1..Len(pings) : pings[k] = answered
     IN  /\ answered.due <= now
         /\ pings' = [k \in 1..(Len(pings) - 1) |-> IF k < i THEN pings[k] ELSE pings[k + 1]]
         /\ clockOffset' = handlePong(now + skew)
         /\ lastEvent' = [type |-> "pong", sock |-> s, serverTime |-> now + skew,
                          sentAt |-> answered.sentAt, probe |-> answered.probe,
                          handled |-> lastPingTime # 0]
  /\ UNCHANGED <<envVars, nextId, schedVars, connVars, lastPingTime, tickVars, nMessages, appVars>>

\* a 'server_time' message arrives on socket s: updateClockOffset
OnServerTime(s, skew) ==
  /\ s \in 1..Len(sockets)
  /\ sockets[s] = "OPEN"
  /\ nMessages < MaxMessages
  /\ clockOffset' = 2 * ((now + skew) - now)
  /\ nMessages' = nMessages + 1
  /\ lastEvent' = [type |-> "server_time", sock |-> s, serverTime |-> now + skew]
  /\ UNCHANGED <<envVars, nextId, schedVars, connVars, lastPingTime, pings, tickVars,
                 appVars>>

\* this.subscribers.get(symbol) || []
handlersOf(subs, symbol) ==
  IF symbol \in DOMAIN subs THEN subs[symbol] ELSE <<>>

\* handlers.indexOf(handler): the first position holding it (0: none)
indexOf(handlers, handler) ==
  IF \E i \in 1..Len(handlers) : handlers[i] = handler
  THEN CHOOSE i \in 1..Len(handlers) :
         handlers[i] = handler /\ \A k \in 1..(i - 1) : handlers[k] # handler
  ELSE 0

\* handlers.splice(index, 1)
splice(handlers, index) ==
  [i \in 1..(Len(handlers) - 1) |-> IF i < index THEN handlers[i] ELSE handlers[i + 1]]

\* send(data) of a subscribe / unsubscribe message, guarded by isConnected
sendUpstream(out, type, symbol) ==
  IF isConnected /\ CanSend THEN Append(out, [type |-> type, symbol |-> symbol]) ELSE out

\* The function subscribe(symbol, handler) returns, called on the state
\* st = [subscribers, sent]: it looks the handler up again on every call.
unsubscribe(st, symbol, handler) ==
  LET handlers == handlersOf(st.subscribers, symbol)
      index == indexOf(handlers, handler)
      left == IF index > 0 THEN splice(handlers, index) ELSE handlers
  IN  IF Len(left) = 0
      THEN [subscribers |-> Remove(st.subscribers, symbol),
            sent |-> sendUpstream(st.sent, "unsubscribe", symbol),
            removed |-> IF index > 0 THEN 1 ELSE 0]
      ELSE [subscribers |-> Put(st.subscribers, symbol, left),
            sent |-> st.sent,
            removed |-> IF index > 0 THEN 1 ELSE 0]

\* what a handler does when it is invoked for a tick of a symbol: "hOnce"
\* calls the unsubscribe function of its own registration, "hThrows" throws
\* (processTick catches it), "hLog" only reads the tick
runHandler(st, symbol, handler) ==
  IF handler = "hOnce"
  THEN LET r == unsubscribe(st, symbol, handler)
       IN  [subscribers |-> r.subscribers, sent |-> r.sent]
  ELSE st

\* symbolSubscribers.forEach(...) from position k on: forEach visits the
\* positions below the length the array had when it started, and skips
\* those the array no longer has; the array is the live one of the map
\* (each invocation is recorded with the newest tick the buffer then holds)
\* a variant without the try/catch around the handler: the first throw ends
\* the dispatch
RECURSIVE forEachHandlerUncaught(_, _, _, _, _, _)
forEachHandlerUncaught(st, symbol, k, len0, latest, invoked) ==
  LET handlers == handlersOf(st.subscribers, symbol)
  IN  IF k > len0 \/ k > Len(handlers)
      THEN [subscribers |-> st.subscribers, sent |-> st.sent, invoked |-> invoked]
      ELSE IF handlers[k] = "hThrows"
      THEN [subscribers |-> st.subscribers, sent |-> st.sent,
            invoked |-> Append(invoked, [handler |-> handlers[k], latest |-> latest])]
      ELSE forEachHandlerUncaught(runHandler(st, symbol, handlers[k]), symbol, k + 1, len0,
                                  latest,
                                  Append(invoked, [handler |-> handlers[k], latest |-> latest]))

RECURSIVE forEachHandler(_, _, _, _, _, _)
forEachHandler(st, symbol, k, len0, latest, invoked) ==
  LET handlers == handlersOf(st.subscribers, symbol)
  IN  IF k > len0 \/ k > Len(handlers)
      THEN [subscribers |-> st.subscribers, sent |-> st.sent, invoked |-> invoked]
      ELSE forEachHandler(runHandler(st, symbol, handlers[k]), symbol, k + 1, len0, latest,
                          Append(invoked, [handler |-> handlers[k], latest |-> latest]))

\* the application calls subscribe(symbol, handler)
Subscribe(symbol, handler) ==
  /\ Len(unsubs) < MaxSubscribes
  /\ subscribers' = Put(subscribers, symbol, Append(handlersOf(subscribers, symbol), handler))
  /\ sent' = sendUpstream(sent, "subscribe", symbol)
  /\ unsubs' = Append(unsubs, [symbol |-> symbol, handler |-> handler, calls |-> 0])
  /\ lastEvent' = [type |-> "subscribe", symbol |-> symbol, handler |-> handler]
  /\ UNCHANGED <<envVars, nextId, schedVars, connVars, clockVars, tickVars, nMessages,
                 workerVars, engineVars, nCalls, calcVars>>

\* the application calls the u-th unsubscribe function it was given
Unsubscribe(u) ==
  /\ u \in 1..Len(unsubs)
  /\ unsubs[u].calls < MaxUnsubscribeCalls
  /\ LET r == unsubscribe([subscribers |-> subscribers, sent |-> sent],
                          unsubs[u].symbol, unsubs[u].handler)
     IN  /\ subscribers' = r.subscribers
         /\ sent' = r.sent
         /\ lastEvent' = [type |-> "unsubscribe", fn |-> u, symbol |-> unsubs[u].symbol,
                          handler |-> unsubs[u].handler, callsBefore |-> unsubs[u].calls,
                          handlersBefore |-> handlersOf(subscribers, unsubs[u].symbol),
                          removed |-> r.removed, sentNow |-> Len(r.sent) - Len(sent)]
  /\ unsubs' = [unsubs EXCEPT ![u].calls = @ + 1]
  /\ UNCHANGED <<envVars, nextId, schedVars, connVars, clockVars, tickVars, nMessages,
                 workerVars, engineVars, nCalls, calcVars>>

\* a 'tick' message d = {symbol, ts, price} arrives on socket s: processTick
\* stores the tick, then runs the handlers of the symbol
OnTick(s, d) ==
  /\ s \in 1..Len(sockets)
  /\ sockets[s] = "OPEN"
  /\ tickBuffers' = storeTick(d)
  /\ pushed' = [pushed EXCEPT ![d.symbol] =
                  Append(@, [symbol |-> d.symbol, ts |-> d.ts, price |-> ParseFloat[d.price]])]
  /\ LET registered == handlersOf(subscribers, d.symbol)
         stored == storeTick(d)[d.symbol]
         tick == stored[Len(stored)]
         r == forEachHandler([subscribers |-> subscribers, sent |-> sent], d.symbol, 1,
                             Len(registered), tick, <<>>)
     IN  /\ subscribers' = r.subscribers
         /\ sent' = r.sent
         /\ lastEvent' = [type |-> "tick", sock |-> s, symbol |-> d.symbol, tick |-> tick,
                          registered |-> registered, invoked |-> r.invoked]
  /\ nMessages' = nMessages + 1
  /\ UNCHANGED <<envVars, nextId, schedVars, connVars, clockVars, unsubs,
                 workerVars, engineVars, nCalls, calcVars>>

----------------------------------------------------------------------------
(* The passage of time *)

\* the instants at which something pending becomes due
DueTimes ==
  {timeouts[id].due : id \in DOMAIN timeouts}
    \cup {reconnectTimers[id].due : id \in DOMAIN reconnectTimers}
    \cup {intervals[id].due : id \in DOMAIN intervals}
    \cup {pings[k].due : k \in 1..Len(pings)}

\* Time passes until the next pending timer or answer is due, or a little
\* longer: a timer never fires early and may fire late.  A handler that is
\* due runs before the clock moves on.
Advance(horizon, lateness) ==
  /\ DueTimes # {}
  /\ \A d \in DueTimes : d > now
  /\ \E late \in lateness :
       LET nextDue == CHOOSE d \in DueTimes : \A e \in DueTimes : d <= e
       IN  /\ nextDue + late <= horizon
           /\ now' = nextDue + late
  /\ lastEvent' = [type |-> "advance"]
  /\ UNCHANGED <<fixedVars, nextId, schedVars, connVars, clockVars, tickVars, nMessages, appVars>>

\* every job id ever handed out whose id the caller may still hold
KnownJobIds == DOMAIN jobs \cup DOMAIN cancelledIds

\* an id scheduleAtCandleBoundary has never returned
NeverScheduled == <<"EURUSD", "1s", 0>>

\* the tick messages the feed may deliver at this instant
TickMessages ==
  {[symbol |-> sym, ts |-> now + skew, price |-> p] :
     sym \in Symbols, skew \in ServerSkews, p \in RawPrices}

\* The scheduler on its own: the application schedules and cancels jobs, the
\* timers fire, and the feed is never connected.
Next ==
  \/ \E s \in Symbols, tf \in Timeframes, cb \in Callbacks, o \in Offsets :
       scheduleAtCandleBoundary(s, tf, cb, o)
  \/ \E id \in DOMAIN timeouts : FireTimeout(id)
  \/ \E j \in KnownJobIds \cup {NeverScheduled} : CancelJob(j)
  \/ CancelAllJobs
  \/ Advance(MaxSchedTime, Lateness)

Spec == Init /\ [][Next]_vars

\* The scheduler after a long run.  One '1s' job with offset 5 was scheduled
\* at instant 995 and every one of its timers has fired since, firing i for
\* the boundary 1000 * (i + 1), due at 1000 * i + 995 and late by
\* LateBy(pattern, i).  TimingHistory(k, pattern) is the history after k such
\* firings.
LateBy(pattern, i) ==
  CASE pattern = "onTime" -> 0
    [] pattern = "late" -> 20
    [] pattern = "mixed" -> IF i % 3 = 0 THEN 20 ELSE 0

TimingHistory(k, pattern) ==
  [i \in 1..k |-> [symbol |-> "EURUSD", timeframe |-> "1s",
                   expectedTime |-> 1000 * (i + 1),
                   actualTime |-> 1000 * i + 995 + LateBy(pattern, i),
                   errorMs |-> LateBy(pattern, i) - 5,
                   timestamp |-> 1000 * i + 995 + LateBy(pattern, i)]]

TimingPrefills == {TimingErrorsKept - 1, TimingErrorsKept}

\* the scheduler right after firing k of that job (timers fired are counted
\* from here)
InitAfter(k, pattern) ==
  LET c == [jobId |-> <<"EURUSD", "1s", 995>>, symbol |-> "EURUSD",
            timeframe |-> "1s", callback |-> "log", offset |-> 5]
  IN  /\ InitApp
      /\ now = 1000 * k + 995 + LateBy(pattern, k)
      /\ clientKind = "ws"
      /\ clockOffset = 0
      /\ nextId = k + 2
      /\ timeouts = Put(EmptyMap, k + 1, scheduleNext(c, k + 1))
      /\ jobs = Put(EmptyMap, c.jobId,
                    [timeoutId |-> k + 1, nextExecution |-> 1000 * (k + 2)])
      /\ timingErrors = TimingHistory(k, pattern)
      /\ nScheduled = 1
      /\ nFired = 0
      /\ cancelledIds = EmptyMap
      /\ ws = 0
      /\ sockets = <<>>
      /\ isConnected = FALSE
      /\ reconnectAttempts = 0
      /\ lastPingTime = 0
      /\ pingInterval = 0
      /\ clockSyncInterval = 0
      /\ tickBuffers = EmptyMap
      /\ reconnectTimers = EmptyMap
      /\ intervals = EmptyMap
      /\ pings = <<>>
      /\ attempts = 0
      /\ pushed = [s \in Symbols |-> <<>>]
      /\ nConnects = 0
      /\ nCloses = 0
      /\ nMessages = 0
      /\ fnArgs = [fn |-> "none"]
      /\ fnResult = 0
      /\ lastEvent = [type |-> "init"]

\* a scheduler just constructed, or the scheduler after k on-time firings
InitTiming ==
  \/ Init
  \/ \E k \in TimingPrefills : InitAfter(k, "onTime")

TimingHorizon == 1000 * (TimingErrorsKept + MaxFirings + 3)

NextTiming ==
  \/ \E cb \in {"log", "throws"}, o \in Offsets :
       scheduleAtCandleBoundary("EURUSD", "1s", cb, o)
  \/ \E id \in DOMAIN timeouts : FireTimeout(id)
  \/ \E j \in DOMAIN jobs : CancelJob(j)
  \/ Advance(TimingHorizon, Lateness)

SpecTiming == InitTiming /\ [][NextTiming]_vars

\* The feed over its whole reconnection cycle, with one 30 s job scheduled
\* at some moment.
NextFeed ==
  \/ nScheduled = 0 /\ scheduleAtCandleBoundary("EURUSD", "30s", "log", 5)
  \/ \E id \in DOMAIN timeouts : FireTimeout(id)
  \/ Connect
  \/ \E s \in 1..Len(sockets), rtt \in Rtts : OnOpen(s, rtt)
  \/ \E s \in 1..Len(sockets) : OnClose(s)
  \/ \E s \in 1..Len(sockets) : OnError(s)
  \/ \E id \in DOMAIN reconnectTimers : ReconnectFire(id)
  \/ \E id \in DOMAIN intervals, rtt \in Rtts : HeartbeatFire(id, rtt)
  \/ \E id \in DOMAIN intervals, rtt \in Rtts : ClockSyncFire(id, rtt)
  \/ \E s \in 1..Len(sockets), skew \in ServerSkews : OnPong(s, skew)
  \/ Advance(MaxTime, {0})

\* the module exports the WebSocket client (VITE_WEBSOCKET_URL is set)
InitFeed == Init /\ clientKind = "ws"

SpecFeed == InitFeed /\ [][NextFeed]_vars

\* The feed with an application that connects and disconnects at will.
NextDisconnect ==
  \/ Connect
  \/ \E s \in 1..Len(sockets), rtt \in Rtts : OnOpen(s, rtt)
  \/ \E s \in 1..Len(sockets) : OnClose(s)
  \/ \E s \in 1..Len(sockets) : OnCloseAfterDisconnect(s)
  \/ \E s \in 1..Len(sockets) : OnError(s)
  \/ \E id \in DOMAIN reconnectTimers : ReconnectFire(id)
  \/ \E id \in DOMAIN intervals, rtt \in Rtts : HeartbeatFire(id, rtt)
  \/ \E id \in DOMAIN intervals, rtt \in Rtts : ClockSyncFire(id, rtt)
  \/ \E s \in 1..Len(sockets), skew \in ServerSkews : OnPong(s, skew)
  \/ Disconnect
  \/ Advance(MaxTime, {0})

SpecDisconnect == InitFeed /\ [][NextDisconnect]_vars

----------------------------------------------------------------------------
(* The tick buffer near its capacity *)

\* the k ticks the feed delivered for a symbol before the exploration starts
Prefill(sym, k) ==
  [i \in 1..k |-> [symbol |-> sym, ts |-> i, price |-> IF i % 2 = 0 THEN 10850 ELSE 10900]]

PrefillLens == {0, TickBufferCapacity - 1, TickBufferCapacity}

\* The client connected at instant 1000 (Connect, then OnOpen), after which
\* the feed has delivered k ticks for EURUSD and none for the other symbols.
InitBuffer ==
  /\ InitApp
  /\ now = 1000
  /\ clientKind = "ws"
  /\ nextId = 3
  /\ jobs = EmptyMap
  /\ timeouts = EmptyMap
  /\ timingErrors = <<>>
  /\ nScheduled = 0
  /\ nFired = 0
  /\ cancelledIds = EmptyMap
  /\ ws = 1
  /\ sockets = <<"OPEN">>
  /\ isConnected = TRUE
  /\ reconnectAttempts = 0
  /\ clockOffset = 0
  /\ lastPingTime = 1000
  /\ pingInterval = 2
  /\ clockSyncInterval = 1
  /\ \E k \in PrefillLens :
       /\ tickBuffers = IF k = 0 THEN EmptyMap ELSE ("EURUSD" :> Prefill("EURUSD", k))
       /\ pushed = [s \in Symbols |-> IF s = "EURUSD" THEN Prefill(s, k) ELSE <<>>]
  /\ reconnectTimers = EmptyMap
  /\ intervals = (1 :> [kind |-> "clockSync", due |-> 1000 + ClockSyncPeriod])
                   @@ (2 :> [kind |-> "heartbeat", due |-> 1000 + HeartbeatPeriod])
  /\ pings = <<[sock |-> 1, sentAt |-> 1000, due |-> 1007, probe |-> TRUE]>>
  /\ attempts = 0
  /\ nConnects = 1
  /\ nCloses = 0
  /\ nMessages = 0
  /\ fnArgs = [fn |-> "none"]
  /\ fnResult = 0
  /\ lastEvent = [type |-> "init"]

NextBuffer ==
  \E d \in TickMessages : nMessages < MaxMessages /\ OnTick(1, d)

SpecBuffer == InitBuffer /\ [][NextBuffer]_vars

----------------------------------------------------------------------------
(* Subscriptions and the fan-out of ticks *)

\* the tick messages of the fan-out exploration: one per symbol
FanOutTicks ==
  {[symbol |-> sym, ts |-> now, price |-> "1.0850"] : sym \in Symbols}

NextSub ==
  \/ Connect
  \/ \E s \in 1..Len(sockets), rtt \in Rtts : OnOpen(s, rtt)
  \/ \E sym \in Symbols, h \in Handlers : Subscribe(sym, h)
  \/ \E u \in 1..Len(unsubs) : Unsubscribe(u)
  \/ \E s \in 1..Len(sockets), d \in FanOutTicks : nMessages < MaxFanOutTicks /\ OnTick(s, d)

SpecSub == InitFeed /\ [][NextSub]_vars

----------------------------------------------------------------------------
(* IndicatorWorker: candle building *)

\* getTimeframeMs(timeframe): the worker's table has the entries of the
\* scheduler's; a string it does not hold yields 60000
getTimeframeMs(timeframe) ==
  IF timeframe \in DOMAIN timeframes THEN timeframes[timeframe] ELSE 60000

\* getMsToTimeframe(ms)
getMsToTimeframe(ms) ==
  IF \E tf \in DOMAIN timeframes : timeframes[tf] = ms
  THEN CHOOSE tf \in DOMAIN timeframes : timeframes[tf] = ms
  ELSE "1m"

\* a variant that does not align the start to the period
getCandleStartUnaligned(ts, timeframeMs) == ts

getCandleStart(ts, timeframeMs) ==
  LET remainder == JsRem(ts, timeframeMs)
  IN  ts - remainder

\* a variant whose candle ends one millisecond early
createNewCandleEndingEarly(tick, candleStart, timeframeMs) ==
  [symbol |-> tick.symbol, frame |-> getMsToTimeframe(timeframeMs),
   open |-> tick.price, high |-> tick.price, low |-> tick.price, close |-> tick.price,
   ts_open |-> candleStart, ts_close |-> candleStart + timeframeMs - 1,
   volume |-> 1, tickCount |-> 1]

createNewCandle(tick, candleStart, timeframeMs) ==
  [symbol |-> tick.symbol, frame |-> getMsToTimeframe(timeframeMs),
   open |-> tick.price, high |-> tick.price, low |-> tick.price, close |-> tick.price,
   ts_open |-> candleStart, ts_close |-> candleStart + timeframeMs,
   volume |-> 1, tickCount |-> 1]

\* a variant that leaves the close at the first price
updateCandleKeepingClose(candle, tick) ==
  [candle EXCEPT !.high = Max(candle.high, tick.price),
                 !.low = Min(candle.low, tick.price),
                 !.volume = @ + 1,
                 !.tickCount = @ + 1]

\* a variant that does not count the tick
updateCandleNotCounting(candle, tick) ==
  [candle EXCEPT !.high = Max(candle.high, tick.price),
                 !.low = Min(candle.low, tick.price),
                 !.close = tick.price,
                 !.volume = @ + 1]

updateCandle(candle, tick) ==
  [candle EXCEPT !.high = Max(candle.high, tick.price),
                 !.low = Min(candle.low, tick.price),
                 !.close = tick.price,
                 !.volume = @ + 1,
                 !.tickCount = @ + 1]

\* `${symbol}_${timeframe}`
builderKey(symbol, timeframe) == symbol \o "_" \o timeframe

\* candleBuilders once buildCandle has looked the key up (lines 64-69)
withBuilder(builders, key, timeframe) ==
  IF key \in DOMAIN builders THEN builders
  ELSE Put(builders, key, [currentCandle |-> 0, timeframeMs |-> getTimeframeMs(timeframe)])

\* a variant that applies the tick to the candle it completes
buildCandleClosingWithTick(st, symbol, timeframe, tick) ==
  LET key == builderKey(symbol, timeframe)
      builders == withBuilder(st.candleBuilders, key, timeframe)
      builder == builders[key]
      candleStart == getCandleStart(tick.ts, builder.timeframeMs)
      cur == builder.currentCandle
  IN  IF cur = 0 \/ st.heap[cur].ts_open # candleStart
      THEN IF cur # 0
           THEN LET h1 == Append(st.heap, updateCandle(st.heap[cur], tick))
                    h2 == Append(h1, createNewCandle(tick, candleStart, builder.timeframeMs))
                IN  [candleBuilders |-> [builders EXCEPT ![key].currentCandle = Len(h2)],
                     heap |-> h2, completed |-> <<Len(h1)>>, current |-> Len(h2),
                     isNewCandle |-> TRUE]
           ELSE LET h1 == Append(st.heap, createNewCandle(tick, candleStart, builder.timeframeMs))
                IN  [candleBuilders |-> [builders EXCEPT ![key].currentCandle = Len(h1)],
                     heap |-> h1, completed |-> <<>>, current |-> Len(h1),
                     isNewCandle |-> TRUE]
      ELSE [candleBuilders |-> builders,
            heap |-> [st.heap EXCEPT ![cur] = updateCandle(@, tick)],
            completed |-> <<>>, current |-> cur, isNewCandle |-> FALSE]

\* a variant that also emits a candle for the period after the completed
\* one when the tick skipped it
buildCandleForwardFilling(st, symbol, timeframe, tick) ==
  LET key == builderKey(symbol, timeframe)
      builders == withBuilder(st.candleBuilders, key, timeframe)
      builder == builders[key]
      candleStart == getCandleStart(tick.ts, builder.timeframeMs)
      cur == builder.currentCandle
  IN  IF cur = 0 \/ st.heap[cur].ts_open # candleStart
      THEN IF cur # 0
           THEN LET old == st.heap[cur]
                    h1 == Append(st.heap, old)
                    skipped == candleStart > old.ts_close
                    filler == [old EXCEPT !.open = old.close, !.high = old.close,
                                          !.low = old.close,
                                          !.ts_open = old.ts_close,
                                          !.ts_close = old.ts_close + builder.timeframeMs,
                                          !.volume = 0, !.tickCount = 0]
                    h2 == IF skipped THEN Append(h1, filler) ELSE h1
                    h3 == Append(h2, createNewCandle(tick, candleStart, builder.timeframeMs))
                IN  [candleBuilders |-> [builders EXCEPT ![key].currentCandle = Len(h3)],
                     heap |-> h3,
                     completed |-> IF skipped THEN <<Len(h1), Len(h2)>> ELSE <<Len(h1)>>,
                     current |-> Len(h3), isNewCandle |-> TRUE]
           ELSE LET h1 == Append(st.heap, createNewCandle(tick, candleStart, builder.timeframeMs))
                IN  [candleBuilders |-> [builders EXCEPT ![key].currentCandle = Len(h1)],
                     heap |-> h1, completed |-> <<>>, current |-> Len(h1),
                     isNewCandle |-> TRUE]
      ELSE [candleBuilders |-> builders,
            heap |-> [st.heap EXCEPT ![cur] = updateCandle(@, tick)],
            completed |-> <<>>, current |-> cur, isNewCandle |-> FALSE]

\* buildCandle(symbol, timeframe, tick) on st = [candleBuilders, heap]: the
\* builders and the candle objects afterwards, and the result it returns
\* (completed: the references of the completed candles in it; current: the
\* reference of the open candle).  { ...builder.currentCandle } is a new
\* object; updateCandle changes the open candle in place.
\* a variant that also emits the open candle on every tick of its period
buildCandleEmittingEveryTick(st, symbol, timeframe, tick) ==
  LET key == builderKey(symbol, timeframe)
      builders == withBuilder(st.candleBuilders, key, timeframe)
      builder == builders[key]
      candleStart == getCandleStart(tick.ts, builder.timeframeMs)
      cur == builder.currentCandle
  IN  IF cur = 0 \/ st.heap[cur].ts_open # candleStart
      THEN IF cur # 0
           THEN LET h1 == Append(st.heap, st.heap[cur])
                    h2 == Append(h1, createNewCandle(tick, candleStart, builder.timeframeMs))
                IN  [candleBuilders |-> [builders EXCEPT ![key].currentCandle = Len(h2)],
                     heap |-> h2, completed |-> <<Len(h1)>>, current |-> Len(h2),
                     isNewCandle |-> TRUE]
           ELSE LET h1 == Append(st.heap, createNewCandle(tick, candleStart, builder.timeframeMs))
                IN  [candleBuilders |-> [builders EXCEPT ![key].currentCandle = Len(h1)],
                     heap |-> h1, completed |-> <<>>, current |-> Len(h1),
                     isNewCandle |-> TRUE]
      ELSE LET h1 == [st.heap EXCEPT ![cur] = updateCandle(@, tick)]
               h2 == Append(h1, h1[cur])
           IN  [candleBuilders |-> builders, heap |-> h2,
                completed |-> <<Len(h2)>>, current |-> cur, isNewCandle |-> FALSE]

buildCandle(st, symbol, timeframe, tick) ==
  LET key == builderKey(symbol, timeframe)
      builders == withBuilder(st.candleBuilders, key, timeframe)
      builder == builders[key]
      candleStart == getCandleStart(tick.ts, builder.timeframeMs)
      cur == builder.currentCandle
  IN  IF cur = 0 \/ st.heap[cur].ts_open # candleStart
      THEN IF cur # 0
           THEN LET h1 == Append(st.heap, st.heap[cur])
                    h2 == Append(h1, createNewCandle(tick, candleStart, builder.timeframeMs))
                IN  [candleBuilders |-> [builders EXCEPT ![key].currentCandle = Len(h2)],
                     heap |-> h2, completed |-> <<Len(h1)>>, current |-> Len(h2),
                     isNewCandle |-> TRUE]
           ELSE LET h1 == Append(st.heap, createNewCandle(tick, candleStart, builder.timeframeMs))
                IN  [candleBuilders |-> [builders EXCEPT ![key].currentCandle = Len(h1)],
                     heap |-> h1, completed |-> <<>>, current |-> Len(h1),
                     isNewCandle |-> TRUE]
      ELSE [candleBuilders |-> builders,
            heap |-> [st.heap EXCEPT ![cur] = updateCandle(@, tick)],
            completed |-> <<>>, current |-> cur, isNewCandle |-> FALSE]

NoCandle == [symbol |-> "null", frame |-> "null", open |-> 0, high |-> 0, low |-> 0,
             close |-> 0, ts_open |-> 0, ts_close |-> 0, volume |-> 0, tickCount |-> 0]

\* the open candle of a key (NoCandle: none)
openCandle(builders, objects, key) ==
  IF key \in DOMAIN builders /\ builders[key].currentCandle # 0
  THEN objects[builders[key].currentCandle]
  ELSE NoCandle

\* ticks recorded under a key
ticksOf(f, key) == IF key \in DOMAIN f THEN f[key] ELSE <<>>

\* a 'buildCandle' message reaches the worker
BuildCandle(symbol, timeframe, tick) ==
  /\ nCalls < MaxBuilds
  /\ LET key == builderKey(symbol, timeframe)
         r == buildCandle([candleBuilders |-> candleBuilders, heap |-> heap],
                          symbol, timeframe, tick)
     IN  /\ candleBuilders' = r.candleBuilders
         /\ heap' = r.heap
         /\ emitted' = emitted \o [i \in 1..Len(r.completed) |->
                                     [key |-> key, ref |-> r.completed[i],
                                      candle |-> r.heap[r.completed[i]]]]
         /\ ingested' = Put(ingested, key, Append(ticksOf(ingested, key), tick))
         /\ sinceOpen' = Put(sinceOpen, key,
                             IF r.isNewCandle THEN <<tick>>
                             ELSE Append(ticksOf(sinceOpen, key), tick))
         /\ lastEvent' = [type |-> "buildCandle", key |-> key, timeframe |-> timeframe,
                          tick |-> tick,
                          openBefore |-> openCandle(candleBuilders, heap, key),
                          completed |-> r.completed, current |-> r.current,
                          isNewCandle |-> r.isNewCandle]
  /\ nCalls' = nCalls + 1
  /\ UNCHANGED <<envVars, nextId, schedVars, connVars, clockVars, tickVars, nMessages,
                 subVars, indicators, engineVars, calcVars>>

\* the ticks and timeframes handed to the worker
WorkerTimes == {999, 1000, 3200, 80000}

WorkerPrices == {10850, 10900}

WorkerTimeframes == {"1s", "1m", "2m"}

WorkerTicks ==
  {[symbol |-> "EURUSD", ts |-> t, price |-> p] : t \in WorkerTimes, p \in WorkerPrices}

NextWorker ==
  \E tf \in WorkerTimeframes, tick \in WorkerTicks : BuildCandle(tick.symbol, tf, tick)

\* the worker runs on its own: neither the clock nor the realtime client
\* enters buildCandle
InitWorker == Init /\ now = 1000 /\ clientKind = "ws"

SpecWorker == InitWorker /\ [][NextWorker]_vars

----------------------------------------------------------------------------
(* The worker's message handler (self.onmessage) *)

\* what a message or a result carries where it has no candle or tick
NoResult == [success |-> "undefined", isNewCandle |-> FALSE, completed |-> <<>>,
             current |-> NoCandle]

Failure == [success |-> "false", isNewCandle |-> FALSE, completed |-> <<>>,
            current |-> NoCandle]

\* a variant that posts nothing when the handler of the message throws
onmessageSilentOnError(st, msg) ==
  CASE msg.type = "buildCandle" ->
         LET r == buildCandle(st, msg.symbol, msg.timeframe, msg.tick)
         IN  [candleBuilders |-> r.candleBuilders, heap |-> r.heap, built |-> <<r>>,
              posts |-> <<[id |-> msg.id, re |-> msg.seq,
                           result |-> [success |-> "undefined",
                                       isNewCandle |-> r.isNewCandle,
                                       completed |-> [i \in 1..Len(r.completed) |->
                                                        r.heap[r.completed[i]]],
                                       current |-> r.heap[r.current]]]>>]
    [] msg.type = "update" ->
         [candleBuilders |-> st.candleBuilders, heap |-> st.heap, built |-> <<>>,
          posts |-> <<>>]
    [] msg.type = "cleanup" ->
         [candleBuilders |-> EmptyMap, heap |-> st.heap, built |-> <<>>,
          posts |-> <<[id |-> msg.id, re |-> msg.seq, result |-> NoResult]>>]
    [] OTHER ->
         [candleBuilders |-> st.candleBuilders, heap |-> st.heap, built |-> <<>>,
          posts |-> <<[id |-> msg.id, re |-> msg.seq, result |-> Failure]>>]

\* self.onmessage for one message: the builders and candle objects
\* afterwards, the result of buildCandle if it was called, and the messages
\* posted back.  No indicator is registered, so 'update' throws inside
\* updateIndicator and is answered from the catch block, and 'reset' is
\* answered with success: false, as is a type the switch does not know.  id is
\* the id of the request (0: the request carries none) and re the position
\* of the request among all requests, which the program does not see.
onmessage(st, msg) ==
  CASE msg.type = "buildCandle" ->
         LET r == buildCandle(st, msg.symbol, msg.timeframe, msg.tick)
         IN  [candleBuilders |-> r.candleBuilders, heap |-> r.heap, built |-> <<r>>,
              posts |-> <<[id |-> msg.id, re |-> msg.seq,
                           result |-> [success |-> "undefined",
                                       isNewCandle |-> r.isNewCandle,
                                       completed |-> [i \in 1..Len(r.completed) |->
                                                        r.heap[r.completed[i]]],
                                       current |-> r.heap[r.current]]]>>]
    [] msg.type = "cleanup" ->
         [candleBuilders |-> EmptyMap, heap |-> st.heap, built |-> <<>>,
          posts |-> <<[id |-> msg.id, re |-> msg.seq, result |-> NoResult]>>]
    [] OTHER ->
         [candleBuilders |-> st.candleBuilders, heap |-> st.heap, built |-> <<>>,
          posts |-> <<[id |-> msg.id, re |-> msg.seq, result |-> Failure]>>]

\* the key a message is for ("null": none)
keyOf(msg) ==
  IF msg.type = "buildCandle" THEN builderKey(msg.symbol, msg.timeframe) ELSE "null"

\* the requests a page may post
MessageTimeframes == {"1s", "1m"}

MessageTicks ==
  {[symbol |-> "EURUSD", ts |-> 1000, price |-> p] : p \in WorkerPrices}
    \cup {[symbol |-> "EURUSD", ts |-> 3200, price |-> 10900]}

Requests ==
  {[type |-> "buildCandle", symbol |-> tick.symbol, timeframe |-> tf, tick |-> tick] :
     tf \in MessageTimeframes, tick \in MessageTicks}
    \cup {[type |-> t, symbol |-> "null", timeframe |-> "null", tick |-> NoTick] :
            t \in {"update", "reset", "cleanup"}}

\* worker.postMessage(request): the message is queued for the worker
PostMessage(request, withId) ==
  /\ Len(posted) < MaxPosts
  /\ LET seq == Len(posted) + 1
         msg == [id |-> IF withId THEN seq ELSE 0, seq |-> seq, type |-> request.type,
                 symbol |-> request.symbol, timeframe |-> request.timeframe,
                 tick |-> request.tick]
     IN  /\ inbox' = Append(inbox, msg)
         /\ posted' = Append(posted, msg)
         /\ lastEvent' = [type |-> "postMessage", msg |-> msg]
  /\ UNCHANGED <<envVars, nextId, schedVars, connVars, clockVars, tickVars, nMessages,
                 subVars, workerVars, engineVars, nCalls, indVars, stratVars, outbox>>

\* the worker's event loop hands the oldest queued message to self.onmessage
WorkerOnMessage ==
  /\ inbox # <<>>
  /\ LET msg == Head(inbox)
         key == keyOf(msg)
         r == onmessage([candleBuilders |-> candleBuilders, heap |-> heap], msg)
     IN  /\ candleBuilders' = r.candleBuilders
         /\ heap' = r.heap
         /\ outbox' = outbox \o r.posts
         /\ IF r.built # <<>>
            THEN LET b == r.built[1]
                 IN  /\ emitted' = emitted \o [i \in 1..Len(b.completed) |->
                                                 [key |-> key, ref |-> b.completed[i],
                                                  candle |-> b.heap[b.completed[i]]]]
                     /\ ingested' = Put(ingested, key,
                                        Append(ticksOf(ingested, key), msg.tick))
                     /\ sinceOpen' = Put(sinceOpen, key,
                                         IF b.isNewCandle THEN <<msg.tick>>
                                         ELSE Append(ticksOf(sinceOpen, key), msg.tick))
            ELSE /\ sinceOpen' = IF msg.type = "cleanup" THEN EmptyMap ELSE sinceOpen
                 /\ UNCHANGED <<emitted, ingested>>
         /\ indicators' = IF msg.type = "cleanup" THEN EmptyMap ELSE indicators
         /\ lastEvent' = [type |-> "onmessage", msg |-> msg, posts |-> r.posts]
  /\ inbox' = Tail(inbox)
  /\ UNCHANGED <<envVars, nextId, schedVars, connVars, clockVars, tickVars, nMessages,
                 subVars, engineVars, nCalls, indVars, stratVars, posted>>

NextMsg ==
  \/ \E request \in Requests, withId \in BOOLEAN : PostMessage(request, withId)
  \/ WorkerOnMessage

SpecMsg == InitWorker /\ [][NextMsg]_vars

----------------------------------------------------------------------------
(* StrategyEngine and the external store *)

\* the kinds registered at module load (registerStrategy)
Registry == {"EMA_Cross", "RSI_MeanReversion", "BollingerBands", "MultiIndicator"}

\* the kinds a request or a stored row may name
Kinds == {"EMA_Cross", "RSI_MeanReversion", "Scalper"}

Owners == {"u1", "u2"}

StoreOutcomes == {"ok", "error", "rejects"}

EvaluateOutcomes == {"null", "signal", "throws"}

\* createStrategy(name, params, userId) on the rows of 'strategies', the
\* insert ending as store says: the rows afterwards, whether it threw, and
\* the strategy it returned (id 0: none)
createStrategy(rows, name, userId, store) ==
  IF name \notin Registry
  THEN [rows |-> rows, threw |-> TRUE, inserted |-> FALSE, id |-> 0]
  ELSE IF store # "ok"
  THEN [rows |-> rows, threw |-> TRUE, inserted |-> FALSE, id |-> 0]
  ELSE [rows |-> Append(rows, [id |-> Len(rows) + 1, owner |-> userId, name |-> name,
                               active |-> TRUE]),
        threw |-> FALSE, inserted |-> TRUE, id |-> Len(rows) + 1]

\* the rows select('*').eq('owner', userId).eq('active', true) returns
selectActive(rows, userId) ==
  SelectSeq(rows, LAMBDA r : r.owner = userId /\ r.active)

\* the for loop of loadUserStrategies over the selected rows
RECURSIVE instantiate(_, _)
instantiate(data, loadedStrategies) ==
  IF data = <<>> THEN loadedStrategies
  ELSE instantiate(Tail(data),
                   IF Head(data).name \in Registry
                   THEN Append(loadedStrategies, [id |-> Head(data).id, name |-> Head(data).name])
                   ELSE loadedStrategies)

\* loadUserStrategies(userId)
loadUserStrategies(rows, userId, store) ==
  IF store # "ok"
  THEN [threw |-> TRUE, loaded |-> <<>>]
  ELSE [threw |-> FALSE, loaded |-> instantiate(selectActive(rows, userId), <<>>)]

\* the for loop of evaluateStrategies from strategy k on; strategies[k].evaluates
\* is what its evaluate does for this tick and store[k] how an insert into
\* 'signals' made for it ends ("rejects": the awaited insert throws).
\* evaluated lists the strategies whose evaluate has been called; threw says
\* whether an error left the loop.
RECURSIVE evaluateFromAbortingOnThrow(_, _, _, _, _, _)
evaluateFromAbortingOnThrow(strategies, store, k, rows, signals, evaluated) ==
  IF k > Len(strategies)
  THEN [signalRows |-> rows, signals |-> signals, evaluated |-> evaluated, threw |-> FALSE]
  ELSE LET strategy == strategies[k]
       IN  IF strategy.evaluates = "throws"
           THEN [signalRows |-> rows, signals |-> signals,
                 evaluated |-> Append(evaluated, k), threw |-> TRUE]
           ELSE IF strategy.evaluates = "signal" /\ store[k] = "ok"
           THEN evaluateFromAbortingOnThrow(strategies, store, k + 1,
                             Append(rows, [id |-> Len(rows) + 1, strategy_id |-> strategy.id]),
                             Append(signals, [id |-> Len(rows) + 1, strategy |-> strategy.name,
                                              strategy_id |-> strategy.id]),
                             Append(evaluated, k))
           ELSE evaluateFromAbortingOnThrow(strategies, store, k + 1, rows, signals,
                                            Append(evaluated, k))

RECURSIVE evaluateFrom(_, _, _, _, _, _)
evaluateFrom(strategies, store, k, rows, signals, evaluated) ==
  IF k > Len(strategies)
  THEN [signalRows |-> rows, signals |-> signals, evaluated |-> evaluated, threw |-> FALSE]
  ELSE LET strategy == strategies[k]
       IN  IF strategy.evaluates # "signal"
           THEN evaluateFrom(strategies, store, k + 1, rows, signals, Append(evaluated, k))
           ELSE IF store[k] = "ok"
           THEN evaluateFrom(strategies, store, k + 1,
                             Append(rows, [id |-> Len(rows) + 1, strategy_id |-> strategy.id]),
                             Append(signals, [id |-> Len(rows) + 1, strategy |-> strategy.name,
                                              strategy_id |-> strategy.id]),
                             Append(evaluated, k))
           ELSE evaluateFrom(strategies, store, k + 1, rows, signals, Append(evaluated, k))

evaluateStrategies(strategies, store, rows) ==
  evaluateFrom(strategies, store, 1, rows, <<>>, <<>>)

CreateStrategy(name, userId, store) ==
  /\ nCalls < MaxEngineCalls
  /\ LET r == createStrategy(strategyRows, name, userId, store)
     IN  /\ strategyRows' = r.rows
         /\ lastEvent' = [type |-> "createStrategy", name |-> name, store |-> store,
                          threw |-> r.threw, inserted |-> r.inserted, id |-> r.id]
  /\ nCalls' = nCalls + 1
  /\ UNCHANGED <<envVars, nextId, schedVars, connVars, clockVars, tickVars, nMessages,
                 subVars, workerVars, signalRows, calcVars>>

\* another writer of the store (another client, an earlier build) adds a row
StoreInsert(name, owner, active) ==
  /\ nCalls < MaxEngineCalls
  /\ strategyRows' = Append(strategyRows, [id |-> Len(strategyRows) + 1, owner |-> owner,
                                           name |-> name, active |-> active])
  /\ lastEvent' = [type |-> "storeInsert", name |-> name]
  /\ nCalls' = nCalls + 1
  /\ UNCHANGED <<envVars, nextId, schedVars, connVars, clockVars, tickVars, nMessages,
                 subVars, workerVars, signalRows, calcVars>>

LoadUserStrategies(userId, store) ==
  /\ nCalls < MaxEngineCalls
  /\ LET r == loadUserStrategies(strategyRows, userId, store)
     IN  lastEvent' = [type |-> "loadUserStrategies", userId |-> userId, store |-> store,
                       selected |-> selectActive(strategyRows, userId),
                       threw |-> r.threw, loaded |-> r.loaded]
  /\ nCalls' = nCalls + 1
  /\ UNCHANGED <<envVars, nextId, schedVars, connVars, clockVars, tickVars, nMessages,
                 subVars, workerVars, engineVars, calcVars>>

EvaluateStrategies(strategies, store) ==
  /\ nCalls < MaxEngineCalls
  /\ LET r == evaluateStrategies(strategies, store, signalRows)
     IN  /\ signalRows' = r.signalRows
         /\ lastEvent' = [type |-> "evaluateStrategies", strategies |-> strategies,
                          store |-> store, signals |-> r.signals,
                          evaluated |-> r.evaluated, threw |-> r.threw]
  /\ nCalls' = nCalls + 1
  /\ UNCHANGED <<envVars, nextId, schedVars, connVars, clockVars, tickVars, nMessages,
                 subVars, workerVars, strategyRows, calcVars>>

\* the strategy lists handed to evaluateStrategies: instances 1..n, each
\* with what its evaluate does for the tick
StrategyLists ==
  UNION {[1..n -> EvaluateOutcomes] : n \in 0..MaxStrategies}

StrategiesOf(outcomes) ==
  [k \in 1..Len(outcomes) |-> [id |-> k, name |-> IF k % 2 = 1 THEN "EMA_Cross"
                                                  ELSE "RSI_MeanReversion",
                               evaluates |-> outcomes[k]]]

NextEngine ==
  \/ \E name \in Kinds, store \in StoreOutcomes : CreateStrategy(name, "u1", store)
  \/ \E name \in Kinds, owner \in Owners, active \in BOOLEAN : StoreInsert(name, owner, active)
  \/ \E store \in StoreOutcomes : LoadUserStrategies("u1", store)
  \/ \E outcomes \in StrategyLists : \E store \in [1..Len(outcomes) -> StoreOutcomes] :
       EvaluateStrategies(StrategiesOf(outcomes), store)

\* the engine runs on its own: neither the clock nor the realtime client
\* enters it
InitEngine == Init /\ now = 1000 /\ clientKind = "ws"

SpecEngine == InitEngine /\ [][NextEngine]_vars

----------------------------------------------------------------------------
(* The streaming indicators (engine/indicators/index.js) *)

\* Prices are whole numbers of price units and every value an indicator
\* computes from them is kept as an exact fraction n/d in lowest terms.
RECURSIVE GCD(_, _)
GCD(a, b) == IF b = 0 THEN a ELSE GCD(b, a % b)

Abs(x) == IF x < 0 THEN -x ELSE x

Rat(n, d) ==
  LET g == GCD(Abs(n), d)
  IN  [n |-> n \div g, d |-> d \div g]

RatOf(i) == [n |-> i, d |-> 1]

RatAdd(a, b) == Rat(a.n * b.d + b.n * a.d, a.d * b.d)

RatSub(a, b) == Rat(a.n * b.d - b.n * a.d, a.d * b.d)

RatMul(a, b) == Rat(a.n * b.n, a.d * b.d)

\* a / b for b # 0
RatDiv(a, b) ==
  IF b.n < 0 THEN Rat(-(a.n * b.d), a.d * (-b.n)) ELSE Rat(a.n * b.d, a.d * b.n)

RatLess(a, b) == a.n * b.d < b.n * a.d

RatLeq(a, b) == a.n * b.d <= b.n * a.d

RatAbs(a) == [n |-> Abs(a.n), d |-> a.d]

RatMin(a, b) == IF RatLess(b, a) THEN b ELSE a

\* null, where a number is expected
Null == [n |-> 0, d |-> 0]

\* null, where a price is expected
NoPrice == -1

\* null, where a candle is expected
NoBar == [high |-> 0, low |-> 0, close |-> 0]

RECURSIVE Sum(_)
Sum(q) == IF q = <<>> THEN 0 ELSE Head(q) + Sum(Tail(q))

RECURSIVE RatSum(_)
RatSum(q) == IF q = <<>> THEN RatOf(0) ELSE RatAdd(Head(q), RatSum(Tail(q)))

\* array.push(x) followed by a shift() once the array is longer than period
pushShift(q, x, period) ==
  LET longer == Append(q, x)
  IN  IF Len(longer) > period THEN Tail(longer) ELSE longer

\* new EMA(period)
newEMA(period) ==
  [type |-> "EMA", period |-> period, multiplier |-> Rat(2, period + 1), ema |-> Null]

\* a variant that weighs the price and the previous value equally whatever
\* the period
EMA_updateUnweighted(self, price) ==
  LET ema == IF self.ema = Null
             THEN RatOf(price)
             ELSE RatDiv(RatAdd(RatOf(price), self.ema), RatOf(2))
  IN  [self |-> [self EXCEPT !.ema = ema], out |-> ema]

\* EMA.update(price): the object afterwards and the value returned
EMA_update(self, price) ==
  LET ema == IF self.ema = Null
             THEN RatOf(price)
             ELSE RatAdd(RatMul(RatOf(price), self.multiplier),
                         RatMul(self.ema, RatSub(RatOf(1), self.multiplier)))
  IN  [self |-> [self EXCEPT !.ema = ema], out |-> ema]

EMA_getValue(self) == self.ema

EMA_reset(self) == [self EXCEPT !.ema = Null]

\* new RSI(period)
newRSI(period) ==
  [type |-> "RSI", period |-> period, gains |-> <<>>, losses |-> <<>>,
   lastPrice |-> NoPrice]

\* the value update and getValue compute from full queues
RSI_value(self) ==
  LET avgGain == Rat(Sum(self.gains), self.period)
      avgLoss == Rat(Sum(self.losses), self.period)
  IN  IF avgLoss.n = 0 THEN RatOf(100)
      ELSE LET rs == RatDiv(avgGain, avgLoss)
           IN  RatSub(RatOf(100), RatDiv(RatOf(100), RatAdd(RatOf(1), rs)))

\* a variant that never drops the oldest entry of the queues
RSI_updateWithoutShift(self, price) ==
  IF self.lastPrice # NoPrice
  THEN LET change == price - self.lastPrice
           queued == [self EXCEPT !.gains = Append(@, IF change > 0 THEN change ELSE 0),
                                  !.losses = Append(@, IF change < 0 THEN -change ELSE 0)]
       IN  IF Len(queued.gains) = self.period
           THEN [self |-> queued, out |-> RSI_value(queued)]
           ELSE [self |-> [queued EXCEPT !.lastPrice = price], out |-> Null]
  ELSE [self |-> [self EXCEPT !.lastPrice = price], out |-> Null]

\* RSI.update(price): the two return statements inside the warmed-up branch
\* leave before this.lastPrice = price is reached
RSI_update(self, price) ==
  IF self.lastPrice # NoPrice
  THEN LET change == price - self.lastPrice
           gain == IF change > 0 THEN change ELSE 0
           loss == IF change < 0 THEN -change ELSE 0
           queued == [self EXCEPT !.gains = pushShift(@, gain, self.period),
                                  !.losses = pushShift(@, loss, self.period)]
       IN  IF Len(queued.gains) = self.period
           THEN [self |-> queued, out |-> RSI_value(queued)]
           ELSE [self |-> [queued EXCEPT !.lastPrice = price], out |-> Null]
  ELSE [self |-> [self EXCEPT !.lastPrice = price], out |-> Null]

RSI_getValue(self) ==
  IF Len(self.gains) < self.period THEN Null ELSE RSI_value(self)

\* a variant of reset that keeps the last price
RSI_resetKeepingLastPrice(self) ==
  [self EXCEPT !.gains = <<>>, !.losses = <<>>]

RSI_reset(self) ==
  [self EXCEPT !.gains = <<>>, !.losses = <<>>, !.lastPrice = NoPrice]

\* new ATR(period)
newATR(period) ==
  [type |-> "ATR", period |-> period, trueRanges |-> <<>>, lastCandle |-> NoBar]

ATR_getValue(self) ==
  IF Len(self.trueRanges) = 0 THEN Null
  ELSE Rat(Sum(self.trueRanges), Len(self.trueRanges))

\* ATR.update(candle)
ATR_update(self, candle) ==
  LET trueRange == Max(candle.high - candle.low,
                       Max(Abs(candle.high - self.lastCandle.close),
                           Abs(candle.low - self.lastCandle.close)))
      after == [self EXCEPT !.trueRanges = IF self.lastCandle # NoBar
                                           THEN pushShift(@, trueRange, self.period)
                                           ELSE @,
                            !.lastCandle = candle]
  IN  [self |-> after, out |-> ATR_getValue(after)]

ATR_reset(self) == [self EXCEPT !.trueRanges = <<>>, !.lastCandle = NoBar]

\* new BollingerBands(period, stdDev)
newBollingerBands(period, stdDev) ==
  [type |-> "BollingerBands", period |-> period, stdDev |-> stdDev, prices |-> <<>>]

\* The bands of a full window: middle is the mean and variance the mean
\* squared deviation; upper, lower and bandwidth are middle and
\* stdDev * sqrt(variance) combined, so they are given by these two numbers.
BollingerBands_value(self) ==
  LET sma == Rat(Sum(self.prices), self.period)
      squares == [i \in 1..Len(self.prices) |->
                    LET dev == RatSub(RatOf(self.prices[i]), sma)
                    IN  RatMul(dev, dev)]
  IN  [n |-> sma.n, d |-> sma.d,
       variance |-> RatDiv(RatSum(squares), RatOf(self.period)), stdDev |-> self.stdDev]

BollingerBands_getValue(self) ==
  IF Len(self.prices) < self.period THEN Null ELSE BollingerBands_value(self)

\* BollingerBands.update(price)
BollingerBands_update(self, price) ==
  LET after == [self EXCEPT !.prices = pushShift(@, price, self.period)]
  IN  [self |-> after, out |-> BollingerBands_getValue(after)]

BollingerBands_reset(self) == [self EXCEPT !.prices = <<>>]

\* new VWAP()
newVWAP == [type |-> "VWAP", totalVolume |-> 0, totalVolumePrice |-> 0]

VWAP_getValue(self) ==
  IF self.totalVolume = 0 THEN Null ELSE Rat(self.totalVolumePrice, self.totalVolume)

\* VWAP.update(price, volume)
VWAP_update(self, price, volume) ==
  LET after == [self EXCEPT !.totalVolume = @ + volume,
                            !.totalVolumePrice = @ + price * volume]
  IN  [self |-> after, out |-> VWAP_getValue(after)]

VWAP_reset(self) == [self EXCEPT !.totalVolume = 0, !.totalVolumePrice = 0]

\* the calls by the kind of the object
update(self, x) ==
  CASE self.type = "EMA" -> EMA_update(self, x)
    [] self.type = "RSI" -> RSI_update(self, x)
    [] self.type = "ATR" -> ATR_update(self, x)
    [] self.type = "BollingerBands" -> BollingerBands_update(self, x)
    [] self.type = "VWAP" -> VWAP_update(self, x.price, x.volume)

getValue(self) ==
  CASE self.type = "EMA" -> EMA_getValue(self)
    [] self.type = "RSI" -> RSI_getValue(self)
    [] self.type = "ATR" -> ATR_getValue(self)
    [] self.type = "BollingerBands" -> BollingerBands_getValue(self)
    [] self.type = "VWAP" -> VWAP_getValue(self)

reset(self) ==
  CASE self.type = "EMA" -> EMA_reset(self)
    [] self.type = "RSI" -> RSI_reset(self)
    [] self.type = "ATR" -> ATR_reset(self)
    [] self.type = "BollingerBands" -> BollingerBands_reset(self)
    [] self.type = "VWAP" -> VWAP_reset(self)

\* the object a constructor call with the parameters of self returns
constructedLike(self) ==
  CASE self.type = "EMA" -> newEMA(self.period)
    [] self.type = "RSI" -> newRSI(self.period)
    [] self.type = "ATR" -> newATR(self.period)
    [] self.type = "BollingerBands" -> newBollingerBands(self.period, self.stdDev)
    [] self.type = "VWAP" -> newVWAP

\* the indicators a consumer may construct
IndicatorPeriods == {1, 2, 3}

NewIndicators ==
  {newEMA(p) : p \in IndicatorPeriods} \cup {newRSI(p) : p \in IndicatorPeriods}
    \cup {newATR(p) : p \in {1, 2}} \cup {newBollingerBands(p, 2) : p \in {1, 2}}
    \cup {newVWAP}

IndicatorPrices == {1, 2, 4}

\* what update of an indicator of this kind may be given
IndicatorInputs(type) ==
  CASE type = "ATR" -> {[high |-> p + w, low |-> p, close |-> p + c] :
                          p \in {2, 4}, w \in {1, 2}, c \in {0, 1}}
    [] type = "VWAP" -> {[price |-> p, volume |-> v] : p \in IndicatorPrices, v \in {1, 2}}
    [] OTHER -> IndicatorPrices

Construct(ind) ==
  /\ indicator = NoIndicator
  /\ indicator' = ind
  /\ lastEvent' = [type |-> "construct", value |-> getValue(ind), hadData |-> FALSE]
  /\ UNCHANGED <<envVars, nextId, schedVars, connVars, clockVars, tickVars, nMessages,
                 subVars, workerVars, engineVars, nCalls, twin, inputs, outputs,
                 twinOutputs, stratVars, msgVars>>

\* indicator.update(x); the twin, if there is one, is given the same input
Update(x) ==
  /\ indicator # NoIndicator
  /\ nCalls < MaxIndicatorCalls
  /\ LET r == update(indicator, x)
     IN  /\ indicator' = r.self
         /\ inputs' = Append(inputs, x)
         /\ outputs' = Append(outputs, r.out)
         /\ lastEvent' = [type |-> "update", out |-> r.out, value |-> getValue(r.self),
                          hadData |-> lastEvent.hadData]
  /\ IF twin # NoIndicator
     THEN LET t == update(twin, x)
          IN  twin' = t.self /\ twinOutputs' = Append(twinOutputs, t.out)
     ELSE UNCHANGED <<twin, twinOutputs>>
  /\ nCalls' = nCalls + 1
  /\ UNCHANGED <<envVars, nextId, schedVars, connVars, clockVars, tickVars, nMessages,
                 subVars, workerVars, engineVars, stratVars, msgVars>>

\* indicator.reset(); from here on a twin constructed with the same
\* parameters is fed alongside.  hadData records whether the indicator
\* reported a value when it was reset.
Reset ==
  /\ indicator # NoIndicator
  /\ nCalls < MaxIndicatorCalls
  /\ indicator' = reset(indicator)
  /\ twin' = constructedLike(indicator)
  /\ inputs' = <<>>
  /\ outputs' = <<>>
  /\ twinOutputs' = <<>>
  /\ lastEvent' = [type |-> "reset", value |-> getValue(reset(indicator)),
                   hadData |-> getValue(indicator) # Null]
  /\ nCalls' = nCalls + 1
  /\ UNCHANGED <<envVars, nextId, schedVars, connVars, clockVars, tickVars, nMessages,
                 subVars, workerVars, engineVars, stratVars, msgVars>>

NextIndicator ==
  \/ \E ind \in NewIndicators : Construct(ind)
  \/ \E x \in IndicatorInputs(indicator.type) : Update(x)
  \/ Reset

SpecIndicator == InitEngine /\ [][NextIndicator]_vars

----------------------------------------------------------------------------
(* The built-in strategies (engine/StrategyEngine.js) *)

\* evaluate returned null
NoSignal == [side |-> "null"]

\* new EMACrossStrategy({fastPeriod, slowPeriod})
newEMACrossStrategy(fastPeriod, slowPeriod) ==
  [kind |-> "EMA_Cross", fastEMA |-> newEMA(fastPeriod), slowEMA |-> newEMA(slowPeriod),
   lastCrossover |-> "null"]

\* a variant that signals the current relation at every evaluation
EMACross_evaluateOnLevel(self, price) ==
  LET fast == EMA_update(self.fastEMA, price)
      slow == EMA_update(self.slowEMA, price)
      currentCrossover == IF RatLess(slow.out, fast.out) THEN "bullish" ELSE "bearish"
  IN  [self |-> [self EXCEPT !.fastEMA = fast.self, !.slowEMA = slow.self,
                             !.lastCrossover = currentCrossover],
       fastEMA |-> fast.out, slowEMA |-> slow.out, rsi |-> Null, atr |-> Null,
       signal |-> [side |-> IF currentCrossover = "bullish" THEN "long" ELSE "short",
                   confidence |-> RatDiv(RatAbs(RatSub(fast.out, slow.out)), slow.out),
                   crossover |-> currentCrossover]]

\* EMACrossStrategy.evaluate(tick, candle) for tick.price = price: the
\* strategy afterwards, the values of its indicators and what it returned
EMACross_evaluate(self, price) ==
  LET fast == EMA_update(self.fastEMA, price)
      slow == EMA_update(self.slowEMA, price)
      updated == [self EXCEPT !.fastEMA = fast.self, !.slowEMA = slow.self]
      currentCrossover == IF RatLess(slow.out, fast.out) THEN "bullish" ELSE "bearish"
  IN  IF fast.out = Null \/ slow.out = Null
      THEN [self |-> updated, fastEMA |-> fast.out, slowEMA |-> slow.out,
            rsi |-> Null, atr |-> Null, signal |-> NoSignal]
      ELSE [self |-> [updated EXCEPT !.lastCrossover = currentCrossover],
            fastEMA |-> fast.out, slowEMA |-> slow.out, rsi |-> Null, atr |-> Null,
            signal |-> IF self.lastCrossover # "null" /\ self.lastCrossover # currentCrossover
                       THEN [side |-> IF currentCrossover = "bullish" THEN "long" ELSE "short",
                             confidence |-> RatDiv(RatAbs(RatSub(fast.out, slow.out)),
                                                   slow.out),
                             crossover |-> currentCrossover]
                       ELSE NoSignal]

\* new MultiIndicatorStrategy({emaPeriod, rsiPeriod, atrPeriod, rsiOversold,
\* rsiOverbought, minATRMultiple})
newMultiIndicatorStrategy(emaPeriod, rsiPeriod, atrPeriod, rsiOversold, rsiOverbought, minATRMultiple) ==
  [kind |-> "MultiIndicator", ema |-> newEMA(emaPeriod), rsi |-> newRSI(rsiPeriod),
   atr |-> newATR(atrPeriod), rsiOversold |-> rsiOversold,
   rsiOverbought |-> rsiOverbought, minATRMultiple |-> minATRMultiple]

\* price * 0.001 * this.minATRMultiple
atrThreshold(self, price) ==
  RatMul(RatMul(RatOf(price), Rat(1, 1000)), self.minATRMultiple)

\* MultiIndicatorStrategy.evaluate(tick, candle) for tick.price = price;
\* candle is NoBar when the caller passes none
MultiIndicator_evaluate(self, price, candle) ==
  LET ema == EMA_update(self.ema, price)
      rsi == RSI_update(self.rsi, price)
      atr == IF candle # NoBar THEN ATR_update(self.atr, candle)
             ELSE [self |-> self.atr, out |-> Null]
      updated == [self EXCEPT !.ema = ema.self, !.rsi = rsi.self, !.atr = atr.self]
      trendBullish == RatLess(ema.out, RatOf(price))
      trendBearish == RatLess(RatOf(price), ema.out)
      rsiOversold == RatLeq(rsi.out, RatOf(self.rsiOversold))
      rsiOverbought == RatLeq(RatOf(self.rsiOverbought), rsi.out)
      atrFilter == atr.out = Null \/ RatLess(atrThreshold(self, price), atr.out)
      signal ==
        IF trendBullish /\ rsiOversold /\ atrFilter
        THEN [side |-> "long",
              confidence |-> RatMin(RatDiv(RatSub(RatOf(price), ema.out), ema.out),
                                    RatDiv(RatSub(RatOf(self.rsiOversold), rsi.out),
                                           RatOf(self.rsiOversold))),
              crossover |-> "null"]
        ELSE IF trendBearish /\ rsiOverbought /\ atrFilter
        THEN [side |-> "short",
              confidence |-> RatMin(RatDiv(RatSub(ema.out, RatOf(price)), ema.out),
                                    RatDiv(RatSub(rsi.out, RatOf(self.rsiOverbought)),
                                           RatOf(100 - self.rsiOverbought))),
              crossover |-> "null"]
        ELSE NoSignal
  IN  [self |-> updated, fastEMA |-> ema.out, slowEMA |-> Null, rsi |-> rsi.out,
       atr |-> atr.out,
       signal |-> IF ema.out = Null \/ rsi.out = Null THEN NoSignal ELSE signal]

\* strategy.evaluate(tick, candle) by the kind of the strategy
evaluate(self, price, candle) ==
  IF self.kind = "EMA_Cross" THEN EMACross_evaluate(self, price)
  ELSE MultiIndicator_evaluate(self, price, candle)

\* the strategies the engine may be asked to construct
NewStrategies ==
  {newEMACrossStrategy(2, 3), newEMACrossStrategy(3, 2),
   newMultiIndicatorStrategy(3, 2, 2, 30, 70, Rat(3, 2))}

\* the prices of the ticks a strategy of this kind is evaluated on
StrategyPrices(kind) ==
  IF kind = "EMA_Cross" THEN {1, 2, 3, 10} ELSE {1, 19, 20}

\* the candles handed to evaluate along with a tick of this price
StrategyCandles(kind, price) ==
  IF kind = "EMA_Cross" THEN {NoBar}
  ELSE {NoBar, [high |-> price, low |-> price, close |-> price]}

\* new StrategyClass(params) in createStrategy / loadUserStrategies
ConstructStrategy(s) ==
  /\ strat = NoStrategy
  /\ strat' = s
  /\ lastEvent' = [type |-> "constructStrategy"]
  /\ UNCHANGED <<envVars, nextId, schedVars, connVars, clockVars, tickVars, nMessages,
                 subVars, workerVars, engineVars, nCalls, indVars, evaluations, msgVars>>

\* one strategy.evaluate(tick, candle) call of evaluateStrategies
Evaluate(price, candle) ==
  /\ strat # NoStrategy
  /\ Len(evaluations) < MaxEvaluations
  /\ LET r == evaluate(strat, price, candle)
     IN  /\ strat' = r.self
         /\ evaluations' = Append(evaluations,
                                  [price |-> price, candle |-> candle,
                                   fastEMA |-> r.fastEMA, slowEMA |-> r.slowEMA,
                                   rsi |-> r.rsi, atr |-> r.atr, signal |-> r.signal])
         /\ lastEvent' = [type |-> "evaluate", signal |-> r.signal]
  /\ UNCHANGED <<envVars, nextId, schedVars, connVars, clockVars, tickVars, nMessages,
                 subVars, workerVars, engineVars, nCalls, indVars, msgVars>>

\* BaseStrategy.reset(): resets the indicators of this.indicators and nothing
\* else
BaseStrategy_reset(self) ==
  IF self.kind = "EMA_Cross"
  THEN [self EXCEPT !.fastEMA = EMA_reset(@), !.slowEMA = EMA_reset(@)]
  ELSE [self EXCEPT !.ema = EMA_reset(@), !.rsi = RSI_reset(@), !.atr = ATR_reset(@)]

\* new StrategyClass(params) with the parameters this instance was given
strategyConstructedLike(self) ==
  IF self.kind = "EMA_Cross"
  THEN newEMACrossStrategy(self.fastEMA.period, self.slowEMA.period)
  ELSE newMultiIndicatorStrategy(self.ema.period, self.rsi.period, self.atr.period,
                                 self.rsiOversold, self.rsiOverbought, self.minATRMultiple)

\* strategy.reset(); from here on a fresh instance with the same parameters
\* is evaluated alongside
ResetStrategy ==
  /\ strat # NoStrategy
  /\ twin = NoIndicator
  /\ strat' = BaseStrategy_reset(strat)
  /\ twin' = strategyConstructedLike(strat)
  /\ outputs' = <<>>
  /\ twinOutputs' = <<>>
  /\ lastEvent' = [type |-> "resetStrategy", evaluatedBefore |-> Len(evaluations)]
  /\ UNCHANGED <<envVars, nextId, schedVars, connVars, clockVars, tickVars, nMessages,
                 subVars, workerVars, engineVars, nCalls, indicator, inputs, evaluations,
                 msgVars>>

\* the same evaluate(tick, candle) call on the reset instance and on the
\* fresh one
EvaluateBoth(price, candle) ==
  /\ twin # NoIndicator
  /\ Len(evaluations) + Len(outputs) < MaxEvaluations
  /\ LET r == evaluate(strat, price, candle)
         t == evaluate(twin, price, candle)
     IN  /\ strat' = r.self
         /\ twin' = t.self
         /\ outputs' = Append(outputs, r.signal)
         /\ twinOutputs' = Append(twinOutputs, t.signal)
         /\ lastEvent' = [type |-> "evaluateBoth", signal |-> r.signal]
  /\ UNCHANGED <<envVars, nextId, schedVars, connVars, clockVars, tickVars, nMessages,
                 subVars, workerVars, engineVars, nCalls, indicator, inputs, evaluations,
                 msgVars>>

NextStrategy ==
  \/ \E s \in NewStrategies : ConstructStrategy(s)
  \/ \E price \in StrategyPrices(strat.kind) :
       \E candle \in StrategyCandles(strat.kind, price) : Evaluate(price, candle)

SpecStrategy == InitEngine /\ [][NextStrategy]_vars

\* A strategy evaluated on some ticks, reset, and evaluated further.
NextReset ==
  \/ \E s \in NewStrategies : ConstructStrategy(s)
  \/ /\ twin = NoIndicator
     /\ \E price \in StrategyPrices(strat.kind) :
          \E candle \in StrategyCandles(strat.kind, price) : Evaluate(price, candle)
  \/ ResetStrategy
  \/ \E price \in StrategyPrices(strat.kind) :
       \E candle \in StrategyCandles(strat.kind, price) : EvaluateBoth(price, candle)

SpecReset == InitEngine /\ [][NextReset]_vars

\* ---- IndicatorWorker: batches of operations ----

\* the indicator classes the worker imports
IndicatorTypes == {"EMA", "RSI", "ATR", "BollingerBands", "VWAP"}

\* initializeIndicator(id, type, params) on the worker state st: the state
\* afterwards, whether the call threw, and what it returned
initializeIndicator(st, id, type, params) ==
  IF type \notin IndicatorTypes
  THEN [st |-> st, threw |-> TRUE,
        result |-> [success |-> "false", error |-> "Unknown indicator type"]]
  ELSE LET made == CASE type = "EMA" -> newEMA(params.period)
                     [] type = "RSI" -> newRSI(params.period)
                     [] type = "ATR" -> newATR(params.period)
                     [] type = "BollingerBands" ->
                          newBollingerBands(params.period, params.stdDev)
                     [] type = "VWAP" -> newVWAP
       IN  [st |-> [st EXCEPT !.indicators = Put(@, id, [indicator |-> made, type |-> type])],
            threw |-> FALSE,
            result |-> [success |-> "true", id |-> id]]

\* updateIndicator(id, data)
updateIndicator(st, id, data) ==
  IF id \notin DOMAIN st.indicators
  THEN [st |-> st, threw |-> TRUE,
        result |-> [success |-> "false", error |-> "Indicator not found"]]
  ELSE LET held == st.indicators[id]
           r == CASE held.type = "ATR" -> update(held.indicator, data)
                  [] held.type = "VWAP" ->
                       update(held.indicator, [price |-> data.price, volume |-> data.volume])
                  [] OTHER -> update(held.indicator, data.price)
       IN  [st |-> [st EXCEPT !.indicators[id].indicator = r.self],
            threw |-> FALSE,
            result |-> [success |-> "true", id |-> id, result |-> r.out, timestamp |-> now]]

\* one operation of a batch: the switch of batchProcess
runOperation(st, operation) ==
  CASE operation.type = "initIndicator" ->
         initializeIndicator(st, operation.id, operation.indicatorType, operation.params)
    [] operation.type = "updateIndicator" ->
         updateIndicator(st, operation.id, operation.data)
    [] operation.type = "buildCandle" ->
         LET r == buildCandle(st, operation.symbol, operation.timeframe, operation.tick)
         IN  [st |-> [st EXCEPT !.candleBuilders = r.candleBuilders, !.heap = r.heap],
              threw |-> FALSE,
              result |-> [success |-> "undefined", isNewCandle |-> r.isNewCandle,
                          completed |-> [i \in 1..Len(r.completed) |->
                                           r.heap[r.completed[i]]],
                          current |-> r.heap[r.current]]]
    [] OTHER ->
         [st |-> st, threw |-> FALSE,
          result |-> [success |-> "false", error |-> "Unknown operation"]]

\* a variant that gives up the batch at the first operation that fails
RECURSIVE batchProcessStoppingAtFailure(_, _, _, _)
batchProcessStoppingAtFailure(st, operations, k, results) ==
  IF k > Len(operations) THEN [st |-> st, results |-> results]
  ELSE LET r == runOperation(st, operations[k])
           pushed1 == Append(results, [operationId |-> operations[k].operationId,
                                       result |-> r.result])
       IN  IF r.result.success = "false"
           THEN [st |-> r.st, results |-> pushed1]
           ELSE batchProcessStoppingAtFailure(r.st, operations, k + 1, pushed1)

\* batchProcess(operations) from the k-th operation on: the loop pushes
\* {...result, operationId} for what an operation returned and
\* {success: false, error, operationId} for what it threw (the spread result
\* is kept as one field)
RECURSIVE batchProcess(_, _, _, _)
batchProcess(st, operations, k, results) ==
  IF k > Len(operations) THEN [st |-> st, results |-> results]
  ELSE LET r == runOperation(st, operations[k])
       IN  batchProcess(r.st, operations, k + 1,
                        Append(results, [operationId |-> operations[k].operationId,
                                         result |-> r.result]))

\* the worker's maps and candle objects
workerState == [indicators |-> indicators, candleBuilders |-> candleBuilders, heap |-> heap]

\* a 'batch' message reaches the worker (the candles of the batch are
\* returned in its results)
BatchProcess(operations) ==
  /\ nCalls < MaxBatches
  /\ LET r == batchProcess(workerState, operations, 1, <<>>)
     IN  /\ indicators' = r.st.indicators
         /\ candleBuilders' = r.st.candleBuilders
         /\ heap' = r.st.heap
         /\ fnArgs' = [fn |-> "batchProcess", operations |-> operations,
                       before |-> workerState]
         /\ fnResult' = r.results
  /\ nCalls' = nCalls + 1
  /\ lastEvent' = [type |-> "batchProcess"]
  /\ UNCHANGED <<now, clientKind, nextId, schedVars, connVars, clockVars, tickVars,
                 nMessages, subVars, emitted, ingested, sinceOpen, engineVars, calcVars>>

\* the operations a batch is made of
BatchOperations ==
  LET op(type, id, indicatorType, price) ==
        [type |-> type, id |-> id, indicatorType |-> indicatorType,
         params |-> [period |-> 2], data |-> [price |-> price],
         symbol |-> "EURUSD", timeframe |-> "1s",
         tick |-> [symbol |-> "EURUSD", ts |-> 1000 * price, price |-> 10850],
         operationId |-> 0]
  IN  {op("initIndicator", "a", "EMA", 1), op("initIndicator", "b", "SMA", 1),
       op("updateIndicator", "a", "EMA", 1), op("updateIndicator", "a", "EMA", 4),
       op("updateIndicator", "b", "EMA", 2), op("buildCandle", "a", "EMA", 1),
       op("buildCandle", "a", "EMA", 2), op("compact", "a", "EMA", 1)}

\* the batches: up to MaxBatchLen operations, numbered by the caller
Batches ==
  UNION {{[i \in 1..n |-> [q[i] EXCEPT !.operationId = 100 + i]] :
            q \in [1..n -> BatchOperations]} : n \in 1..MaxBatchLen}

NextBatch ==
  \E operations \in Batches : BatchProcess(operations)

SpecBatch == InitWorker /\ [][NextBatch]_vars

\* ---- Timing statistics (Scheduler.getTimingStats) ----

\* errors.map(e => e.errorMs)
errorsOf(history) == [i \in 1..Len(history) |-> history[i].errorMs]

ValuesOf(q) == {q[i] : i \in 1..Len(q)}

\* how many entries of q satisfy Test
Count(q, Test(_)) == Cardinality({i \in 1..Len(q) : Test(q[i])})

\* sorted[k] for sorted = [...errors].sort((a, b) => a - b), k counted from 0
sortedAt(errors, k) ==
  CHOOSE x \in ValuesOf(errors) :
    /\ Count(errors, LAMBDA e : e < x) <= k
    /\ k < Count(errors, LAMBDA e : e <= x)

\* errors.reduce((sum, e) => sum + e, 0), summed value by value
RECURSIVE sumByValue(_, _)
sumByValue(values, errors) ==
  IF values = {} THEN 0
  ELSE LET x == CHOOSE v \in values : TRUE
       IN  x * Count(errors, LAMBDA e : e = x) + sumByValue(values \ {x}, errors)

\* getTimingStats() returns null
NoStats == [count |-> 0]

\* a variant that reads the percentiles off the history as it was recorded
getTimingStatsUnsorted(history) ==
  IF Len(history) = 0 THEN NoStats
  ELSE LET errors == errorsOf(history)
           n == Len(errors)
       IN  [count |-> n,
            mean |-> Rat(sumByValue(ValuesOf(errors), errors), n),
            median |-> errors[(n \div 2) + 1],
            min |-> sortedAt(errors, 0),
            max |-> sortedAt(errors, n - 1),
            p95 |-> errors[((n * 95) \div 100) + 1],
            p99 |-> errors[((n * 99) \div 100) + 1]]

\* getTimingStats() on this history; stdev, the square root of the mean
\* squared deviation, is left out
getTimingStats(history) ==
  IF Len(history) = 0 THEN NoStats
  ELSE LET errors == errorsOf(history)
           n == Len(errors)
       IN  [count |-> n,
            mean |-> Rat(sumByValue(ValuesOf(errors), errors), n),
            median |-> sortedAt(errors, n \div 2),
            min |-> sortedAt(errors, 0),
            max |-> sortedAt(errors, n - 1),
            p95 |-> sortedAt(errors, (n * 95) \div 100),
            p99 |-> sortedAt(errors, (n * 99) \div 100)]

\* the application asks for the timing statistics
GetTimingStats ==
  /\ fnArgs' = [fn |-> "getTimingStats", timingErrors |-> timingErrors]
  /\ fnResult' = getTimingStats(timingErrors)
  /\ UNCHANGED <<now, clientKind, nextId, schedVars, connVars, clockVars, tickVars,
                 nMessages, appVars, lastEvent>>

TimingPatterns == {"onTime", "late", "mixed"}

InitStats ==
  \E k \in TimingPrefills, pattern \in TimingPatterns : InitAfter(k, pattern)

NextStats ==
  \/ \E id \in DOMAIN timeouts : FireTimeout(id)
  \/ Advance(TimingHorizon, Lateness)
  \/ GetTimingStats

SpecStats == InitStats /\ [][NextStats]_vars

----------------------------------------------------------------------------
(* Direct calls of the scheduler's pure functions *)

\* the instants around the first boundaries of an interval
TimesAround(intervalMs) ==
  {k * intervalMs + r : k \in 0..MaxPeriods, r \in {0, 1, 995, intervalMs - 1}}

CallGetNextCandleBoundary(timestamp, intervalMs) ==
  /\ fnArgs' = [fn |-> "getNextCandleBoundary", timestamp |-> timestamp,
                intervalMs |-> intervalMs]
  /\ fnResult' = getNextCandleBoundary(timestamp, intervalMs)
  /\ UNCHANGED <<now, clientKind, nextId, schedVars, connVars, clockVars, tickVars,
                 nMessages, appVars, lastEvent>>

\* the ticks a buffer handed to findTickAtBoundary may hold
BufferTicks ==
  {[symbol |-> "EURUSD", ts |-> t, price |-> p] : t \in {10, 20}, p \in {10850, 10900}}

RECURSIVE SeqsUpTo(_, _)
SeqsUpTo(S, n) ==
  IF n = 0 THEN {<<>>}
  ELSE LET shorter == SeqsUpTo(S, n - 1)
       IN  shorter \cup {Append(q, x) : q \in shorter, x \in S}

CallFindTickAtBoundary(tickBuffer, boundaryTime) ==
  /\ fnArgs' = [fn |-> "findTickAtBoundary", tickBuffer |-> tickBuffer,
                boundaryTime |-> boundaryTime]
  /\ fnResult' = findTickAtBoundary(tickBuffer, boundaryTime)
  /\ UNCHANGED <<now, clientKind, nextId, schedVars, connVars, clockVars, tickVars,
                 nMessages, appVars, lastEvent>>

NextFn ==
  \/ \E tf \in DOMAIN timeframes : \E t \in TimesAround(timeframes[tf]) :
       CallGetNextCandleBoundary(t, timeframes[tf])
  \/ \E b \in SeqsUpTo(BufferTicks, MaxBufLen), t \in {5, 10, 15, 20, 25} :
       CallFindTickAtBoundary(b, t)

SpecFn == Init /\ [][NextFn]_vars

----------------------------------------------------------------------------
(* Claims *)

\* C1: once cancelJob or cancelAllJobs has cancelled a job, no timer of that
\* job id fires and invokes a callback any more.
C1_NoCallbackAfterCancel ==
  (lastEvent.type = "fire" /\ lastEvent.invoked) => lastEvent.cancelledBefore = "no"

C3_NeverArmedWithZeroDelay ==
  \A id \in DOMAIN timeouts :
    LET t == timeouts[id]
        T == timeframes[t.closure.timeframe]
    IN  /\ t.delay > 0
        /\ t.nextBoundary - t.armedAt - t.closure.offset <= 0
             => t.expectedTime = t.nextBoundary + T
        /\ t.nextBoundary - t.armedAt - t.closure.offset > 0
             => t.expectedTime = t.nextBoundary

\* C4: getNextCandleBoundary(t, T) is a multiple of T, later than t and at
\* most t + T; for t on a boundary it is t + T.
C4_NextBoundary ==
  fnArgs.fn = "getNextCandleBoundary" =>
    LET t == fnArgs.timestamp
        T == fnArgs.intervalMs
    IN  /\ fnResult % T = 0
        /\ fnResult > t
        /\ fnResult <= t + T
        /\ t % T = 0 => fnResult = t + T

C4_Witness ==
  /\ fnArgs.fn = "getNextCandleBoundary"
  /\ fnArgs.timestamp > 0
  /\ fnArgs.timestamp % fnArgs.intervalMs = 0
  /\ fnResult = fnArgs.timestamp + fnArgs.intervalMs

\* C5: a firing of a job that is not cancelled re-arms the job: afterwards
\* the job's recorded timer is pending.
C5_FiringRearms ==
  (lastEvent.type = "fire" /\ lastEvent.job \in DOMAIN jobs) =>
    /\ lastEvent.rearmed
    /\ jobs[lastEvent.job].timeoutId \in DOMAIN timeouts

\* C6: a close of the feed (of an open socket, of a failed connection
\* attempt, with or without a reconnection left to schedule) changes neither
\* the job map, nor the pending scheduler timers, nor the clock offset; and a
\* job that fires while the feed is down is re-armed against the corrected
\* time the last-known offset gives.
C6_DisconnectKeepsJobs ==
  [][ /\ lastEvent'.type \in {"close", "error"} =>
           /\ jobs' = jobs
           /\ timeouts' = timeouts
           /\ clockOffset' = clockOffset
      /\ (lastEvent'.type = "fire" /\ ~isConnected /\ lastEvent'.job \in DOMAIN jobs) =>
           /\ lastEvent'.rearmed
           /\ jobs'[lastEvent'.job].timeoutId \in DOMAIN timeouts'
           /\ LET nt == timeouts'[jobs'[lastEvent'.job].timeoutId]
              IN  /\ clockOffset' = clockOffset
                  /\ nt.armedAt = DateOf2(2 * now + clockOffset)
                  /\ nt.expectedTime > nt.armedAt ]_vars

C6_Witness ==
  /\ lastEvent.type = "error"
  /\ ~lastEvent.scheduled
  /\ clockOffset # 0
  /\ \E j \in DOMAIN jobs :
       /\ jobs[j].timeoutId \in DOMAIN timeouts
       /\ timeouts[jobs[j].timeoutId].armedAt > 29000

\* C7: a reconnection scheduled as the n-th since the last successful open
\* waits 1000 * 2^(n-1) ms; n never exceeds maxReconnectAttempts, and a close
\* after the maxReconnectAttempts-th schedules nothing; an open resets the
\* count.
C7_ReconnectBackoff ==
  /\ attempts <= maxReconnectAttempts
  /\ \A id \in DOMAIN reconnectTimers :
       LET r == reconnectTimers[id]
       IN  /\ r.attempt \in 1..maxReconnectAttempts
           /\ r.delay = 1000 * 2 ^ (r.attempt - 1)
  /\ lastEvent.type \in {"close", "error"} =>
       (lastEvent.scheduled <=> lastEvent.attemptsBefore < maxReconnectAttempts)
  /\ lastEvent.type = "open" => reconnectAttempts = 0

C7_Witness ==
  /\ lastEvent.type = "error"
  /\ lastEvent.attemptsBefore = maxReconnectAttempts
  /\ ~lastEvent.scheduled
  /\ nCloses = 1

\* C8: every pong sets the clock offset to serverTime - now + RTT/2, RTT
\* being the time since the ping this pong answers was sent (the offset is
\* kept in half milliseconds).
C8_PongOffset ==
  lastEvent.type = "pong" =>
    clockOffset = 2 * (lastEvent.serverTime - now) + (now - lastEvent.sentAt)

\* C9: the buffer of each symbol holds at most TickBufferCapacity ticks and
\* equals the most recent min(n, TickBufferCapacity) of the n ticks pushed for
\* that symbol, in arrival order; a tick pushed for one symbol therefore
\* leaves the buffer of every other symbol as it was.
C9_BufferKeepsMostRecent ==
  \A sym \in Symbols :
    LET n == Len(pushed[sym])
        kept == Min(n, TickBufferCapacity)
        buffer == getTickBuffer(sym)
    IN  /\ Len(buffer) = kept
        /\ Len(buffer) <= TickBufferCapacity
        /\ \A i \in 1..kept : buffer[i] = pushed[sym][n - kept + i]

C9_Witness ==
  /\ Len(pushed["EURUSD"]) > TickBufferCapacity + 1
  /\ Len(getTickBuffer("EURUSD")) = TickBufferCapacity
  /\ Len(getTickBuffer("GBPUSD")) = 1

\* C10: findTickAtBoundary returns the newest tick of the buffer whose
\* timestamp is <= the boundary time, and none exactly when there is no such
\* tick.
C10_FindTickAtBoundary ==
  fnArgs.fn = "findTickAtBoundary" =>
    LET b == fnArgs.tickBuffer
        matches == {i \in 1..Len(b) : b[i].ts <= fnArgs.boundaryTime}
    IN  /\ fnResult = NoTick <=> matches = {}
        /\ matches # {} =>
             fnResult = b[CHOOSE i \in matches : \A k \in matches : k <= i]

C10_Witness ==
  /\ fnArgs.fn = "findTickAtBoundary"
  /\ Len(fnArgs.tickBuffer) = 3
  /\ fnArgs.tickBuffer[3].ts > fnArgs.boundaryTime
  /\ fnArgs.tickBuffer[1].ts <= fnArgs.boundaryTime
  /\ fnArgs.tickBuffer[2].ts <= fnArgs.boundaryTime
  /\ fnArgs.tickBuffer[1] # fnArgs.tickBuffer[2]
  /\ fnResult = fnArgs.tickBuffer[2]

\* C11: processTick stores the tick before any handler runs, then invokes
\* every handler registered for the symbol exactly once, in registration
\* order, and no handler of another symbol.
C11_FanOutInOrder ==
  lastEvent.type = "tick" =>
    /\ Len(lastEvent.invoked) = Len(lastEvent.registered)
    /\ \A i \in 1..Len(lastEvent.invoked) :
         /\ lastEvent.invoked[i].handler = lastEvent.registered[i]
         /\ lastEvent.invoked[i].latest = lastEvent.tick
    /\ getLatestTick(lastEvent.symbol) = lastEvent.tick

\* C12: a call of an unsubscribe function removes its one registration; an
\* 'unsubscribe' message goes upstream only from a call that removes the
\* last handler of the symbol; a repeated call of the same function removes
\* nothing and sends nothing.
C12_UnsubscribeOnce ==
  lastEvent.type = "unsubscribe" =>
    /\ lastEvent.callsBefore > 0 => (lastEvent.removed = 0 /\ lastEvent.sentNow = 0)
    /\ lastEvent.sentNow > 0 => (lastEvent.removed = 1 /\ Len(lastEvent.handlersBefore) = 1)

\* floor(ts / T) * T for a tick time ts >= 0
PeriodStart(ts, T) == (ts \div T) * T

SupportedTimeframe(tf) == tf \in DOMAIN timeframes

\* C13: for a supported timeframe of duration T, buildCandle emits a
\* completed candle exactly when the key has an open candle and
\* floor(tick.ts / T) * T differs from its period start; otherwise the tick
\* updates the open candle, or creates it when the key has none, and nothing
\* is emitted.
C13_CompletesOnNewPeriod ==
  (lastEvent.type = "buildCandle" /\ SupportedTimeframe(lastEvent.timeframe)) =>
    LET T == timeframes[lastEvent.timeframe]
        before == lastEvent.openBefore
        start == PeriodStart(lastEvent.tick.ts, T)
        cur == heap[lastEvent.current]
    IN  /\ Len(lastEvent.completed) = 1 <=> (before # NoCandle /\ start # before.ts_open)
        /\ cur.ts_open = start
        /\ cur = openCandle(candleBuilders, heap, lastEvent.key)
        /\ (before # NoCandle /\ start = before.ts_open) =>
             /\ ~lastEvent.isNewCandle
             /\ cur.tickCount = before.tickCount + 1
             /\ cur.close = lastEvent.tick.price
        /\ (before = NoCandle \/ start # before.ts_open) =>
             /\ lastEvent.isNewCandle
             /\ cur.tickCount = 1
             /\ cur.open = lastEvent.tick.price

C13_Witness ==
  /\ lastEvent.type = "buildCandle"
  /\ lastEvent.timeframe = "1s"
  /\ lastEvent.openBefore # NoCandle
  /\ lastEvent.openBefore.ts_open = 0
  /\ lastEvent.openBefore.tickCount = 1
  /\ lastEvent.tick.ts = 1000
  /\ Len(lastEvent.completed) = 1

\* C14: every candle buildCandle has produced, open or completed, has
\* low <= open <= high and low <= close <= high, spans exactly the duration
\* of its timeframe, and opens on a multiple of that duration.
C14_CandleWellFormed ==
  \A i \in 1..Len(heap) :
    LET c == heap[i]
        T == timeframes[c.frame]
    IN  /\ c.low <= c.open /\ c.open <= c.high
        /\ c.low <= c.close /\ c.close <= c.high
        /\ c.ts_close - c.ts_open = T
        /\ c.ts_open % T = 0

C14_Witness ==
  /\ Len(emitted) >= 1
  /\ \E i \in 1..Len(heap) :
       /\ heap[i].tickCount >= 2
       /\ heap[i].low < heap[i].high
       /\ heap[i].close = heap[i].low
       /\ heap[i].frame = "1m"
       /\ heap[i].ts_open = 60000

RECURSIVE MaxPrice(_)
MaxPrice(ticks) ==
  IF Len(ticks) = 1 THEN ticks[1].price
  ELSE Max(ticks[1].price, MaxPrice(Tail(ticks)))

RECURSIVE MinPrice(_)
MinPrice(ticks) ==
  IF Len(ticks) = 1 THEN ticks[1].price
  ELSE Min(ticks[1].price, MinPrice(Tail(ticks)))

\* C15: the open candle of a key, with S the ticks ingested since it was
\* created, has open = price of the first tick of S, close = price of the
\* last, high = the maximum and low = the minimum price in S, and
\* tickCount = |S|; a candle holding a sole tick has all four equal to its
\* price.
C15_OpenCandleSummarisesTicks ==
  \A key \in DOMAIN candleBuilders :
    candleBuilders[key].currentCandle # 0 =>
      LET c == heap[candleBuilders[key].currentCandle]
          S == ticksOf(sinceOpen, key)
      IN  /\ Len(S) >= 1
          /\ c.open = S[1].price
          /\ c.close = S[Len(S)].price
          /\ c.high = MaxPrice(S)
          /\ c.low = MinPrice(S)
          /\ c.tickCount = Len(S)
          /\ c.ts_open = PeriodStart(S[1].ts, c.ts_close - c.ts_open)
          /\ Len(S) = 1 => (c.open = c.high /\ c.high = c.low /\ c.low = c.close)

\* a sole tick on '1m', 20000 ms into its period (as 1700000000000 is), and
\* on another key a candle of three ticks whose close is neither its high
\* nor its open
C15_Witness ==
  /\ "EURUSD_1m" \in DOMAIN candleBuilders
  /\ ticksOf(sinceOpen, "EURUSD_1m") = <<[symbol |-> "EURUSD", ts |-> 80000, price |-> 10850]>>
  /\ heap[candleBuilders["EURUSD_1m"].currentCandle].close = 10850
  /\ "EURUSD_1s" \in DOMAIN candleBuilders
  /\ LET S == ticksOf(sinceOpen, "EURUSD_1s")
     IN  /\ Len(S) = 3
         /\ S[1].price = 10850 /\ S[2].price = 10900 /\ S[3].price = 10850

\* C16: a completed candle is returned as the open candle was before the
\* call (the tick that completes it is not applied to it), and no later
\* buildCandle call, for any key, changes a field of it.
C16_CompletedCandleFrozen ==
  /\ \A i \in 1..Len(emitted) : heap[emitted[i].ref] = emitted[i].candle
  /\ (lastEvent.type = "buildCandle" /\ Len(lastEvent.completed) >= 1) =>
       /\ heap[lastEvent.completed[1]] = lastEvent.openBefore
       /\ lastEvent.completed[1] # lastEvent.current

C16_Witness ==
  /\ Len(emitted) = 1
  /\ emitted[1].key = "EURUSD_1s"
  /\ emitted[1].candle.close = 10850
  /\ Len(ticksOf(ingested, "EURUSD_1s")) = 3
  /\ ticksOf(ingested, "EURUSD_1s")[2].price = 10900
  /\ ticksOf(ingested, "EURUSD_1s")[3].price = 10900
  /\ lastEvent.type = "buildCandle"
  /\ lastEvent.key = "EURUSD_1m"

\* C17: a buildCandle call emits at most one completed candle, however many
\* periods the tick lies after the open candle, and every candle emitted
\* for a key is for a period that holds a tick ingested for that key.
C17_NoForwardFill ==
  /\ lastEvent.type = "buildCandle" => Len(lastEvent.completed) <= 1
  /\ \A i \in 1..Len(emitted) :
       LET e == emitted[i]
           T == e.candle.ts_close - e.candle.ts_open
           ticks == ticksOf(ingested, e.key)
       IN  /\ e.candle.tickCount >= 1
           /\ \E k \in 1..Len(ticks) : PeriodStart(ticks[k].ts, T) = e.candle.ts_open

C17_Witness ==
  /\ lastEvent.type = "buildCandle"
  /\ lastEvent.timeframe = "1s"
  /\ lastEvent.openBefore # NoCandle
  /\ lastEvent.openBefore.ts_open = 0
  /\ lastEvent.tick.ts = 3200
  /\ Len(lastEvent.completed) = 1
  /\ heap[lastEvent.current].ts_open = 3000

\* C18: buildCandle for a timeframe string outside the supported table is
\* rejected: it creates no builder and no candle, and no other timeframe
\* stands in for the unknown one.
C18_UnknownTimeframeRejected ==
  (lastEvent.type = "buildCandle" /\ ~SupportedTimeframe(lastEvent.timeframe)) =>
    /\ lastEvent.key \notin DOMAIN candleBuilders
    /\ lastEvent.current = 0

\* C19: a request to instantiate a strategy of a kind outside the registry
\* is rejected with an error, in createStrategy before anything is
\* persisted, and in loadUserStrategies for a stored row of that kind.
C19_UnknownKindRejected ==
  /\ (lastEvent.type = "createStrategy" /\ lastEvent.name \notin Registry) =>
       (lastEvent.threw /\ ~lastEvent.inserted)
  /\ (lastEvent.type = "loadUserStrategies" /\ lastEvent.store = "ok"
      /\ \E i \in 1..Len(lastEvent.selected) : lastEvent.selected[i].name \notin Registry) =>
       lastEvent.threw

\* the strategies of a list whose evaluate returned a signal, in list order
RECURSIVE Signalling(_)
Signalling(strategies) ==
  IF strategies = <<>> THEN <<>>
  ELSE IF Head(strategies).evaluates = "signal"
       THEN <<Head(strategies).id>> \o Signalling(Tail(strategies))
       ELSE Signalling(Tail(strategies))

\* C20: evaluateStrategies returns one signal for each strategy whose
\* evaluate returned one, in the order of the list, whatever the store did
\* with it.
C20_OneSignalPerResult ==
  lastEvent.type = "evaluateStrategies" =>
    [i \in 1..Len(lastEvent.signals) |-> lastEvent.signals[i].strategy_id]
      = Signalling(lastEvent.strategies)

\* C21: an evaluate that raises inside evaluateStrategies does not reach the
\* caller and adds neither a signal nor a row; every strategy of the list,
\* those after the failing one included, is evaluated in the same call, and
\* each one that signals with a successful insert is in the result, so the
\* rows a later call starts from are those of the signals alone.
C21_ThrowContained ==
  [][(lastEvent'.type = "evaluateStrategies" /\ nCalls' # nCalls) =>
       LET e == lastEvent'
           n == Len(e.strategies)
       IN  /\ ~e.threw
           /\ e.evaluated = [k \in 1..n |-> k]
           /\ \A k \in 1..n :
                e.strategies[k].evaluates = "throws" =>
                  \A i \in 1..Len(e.signals) : e.signals[i].strategy_id # e.strategies[k].id
           /\ \A k \in 1..n :
                (e.strategies[k].evaluates = "signal" /\ e.store[k] = "ok") =>
                  \E i \in 1..Len(e.signals) : e.signals[i].strategy_id = e.strategies[k].id
           /\ Len(signalRows') = Len(signalRows) + Len(e.signals)]_vars

C21_Witness ==
  /\ lastEvent.type = "evaluateStrategies"
  /\ Len(lastEvent.strategies) = 2
  /\ lastEvent.strategies[1].evaluates = "throws"
  /\ lastEvent.strategies[2].evaluates = "signal"
  /\ lastEvent.store[2] = "ok"
  /\ Len(lastEvent.signals) = 1
  /\ Len(signalRows) > 1

\* the changes between consecutive prices: the gains (sign 1) or the losses
\* (sign -1) of every step
Steps(prices, sign) ==
  [i \in 1..(Len(prices) - 1) |-> Max(sign * (prices[i + 1] - prices[i]), 0)]

\* the last k entries of q
LastN(q, k) == SubSeq(q, Len(q) - k + 1, Len(q))

Defined(v) == v # Null /\ RatLeq(RatOf(0), v) /\ RatLeq(v, RatOf(100))

\* C22 as stated: an RSI of period P returns null for its first P-1 updates
\* and a value in [0,100] from the P-th update on.
C22_ValueFromPthUpdate ==
  indicator.type = "RSI" =>
    \A i \in 1..Len(outputs) :
      IF i < indicator.period THEN outputs[i] = Null ELSE Defined(outputs[i])

\* C22, amended: an RSI of period P returns null for its first P updates and
\* a value in [0,100] for update P+1 and every update after it; once it has
\* returned a value it never returns null again.
C22_ValueFromPthStep ==
  indicator.type = "RSI" =>
    \A i \in 1..Len(outputs) :
      IF i <= indicator.period THEN outputs[i] = Null ELSE Defined(outputs[i])

C22_Witness ==
  /\ indicator.type = "RSI"
  /\ indicator.period = 2
  /\ Len(outputs) = 4
  /\ outputs[2] = Null
  /\ outputs[3] = RatOf(100)
  /\ outputs[4] # Null
  /\ outputs[4] # RatOf(100)
  /\ outputs[4] # RatOf(0)

\* C23: after n updates the gains and losses queues of an RSI of period P
\* hold the gains and losses of the most recent min(n-1, P) steps, a step
\* being the change from the price of one update to the price of the next.
C23_QueuesHoldRecentSteps ==
  indicator.type = "RSI" =>
    LET k == Min(Max(Len(inputs) - 1, 0), indicator.period)
    IN  /\ indicator.gains = LastN(Steps(inputs, 1), k)
        /\ indicator.losses = LastN(Steps(inputs, -1), k)

\* the volume-weighted mean of the (price, volume) pairs in q
CumulativeAverage(q) ==
  Rat(Sum([i \in 1..Len(q) |-> q[i].price * q[i].volume]),
      Sum([i \in 1..Len(q) |-> q[i].volume]))

\* C27: for each indicator, getValue() reports no data right after reset(),
\* every update after a reset() returns what the same update returns on an
\* indicator constructed afresh with the same parameters, and an indicator
\* that reports a value only stops doing so through reset(): the VWAP is the
\* average over everything it was given since.
C27_ResetIsFresh ==
  [][/\ (lastEvent'.type = "reset" => getValue(indicator') = Null)
     /\ (twin' # NoIndicator => outputs' = twinOutputs')
     /\ ((indicator # NoIndicator /\ getValue(indicator) # Null
            /\ getValue(indicator') = Null) => lastEvent'.type = "reset")
     /\ ((indicator'.type = "VWAP" /\ inputs' # <<>>) =>
            getValue(indicator') = CumulativeAverage(inputs'))]_vars

C27_Witness ==
  /\ indicator.type = "RSI"
  /\ indicator.period = 1
  /\ lastEvent.type = "update"
  /\ lastEvent.hadData
  /\ twin # NoIndicator
  /\ Len(outputs) = 2
  /\ outputs[1] = Null
  /\ outputs[2] # Null

\* whether fastEMA is above slowEMA in evaluation i
Bullish(i) == RatLess(evaluations[i].slowEMA, evaluations[i].fastEMA)

\* the evaluations that returned a signal
SignalAt == {i \in 1..Len(evaluations) : evaluations[i].signal # NoSignal}

\* C24: an EMA-Crossover strategy emits a signal in an evaluation only if
\* fastEMA is above slowEMA in it and was not in the previous one (side long)
\* or is not above it and was in the previous one (side short); the first
\* evaluation emits nothing.
C24_EdgeTriggered ==
  strat.kind = "EMA_Cross" =>
    \A i \in SignalAt :
      /\ i > 1
      /\ Bullish(i) # Bullish(i - 1)
      /\ evaluations[i].signal.side = (IF Bullish(i) THEN "long" ELSE "short")

C24_Witness ==
  /\ strat.kind = "EMA_Cross"
  /\ Len(evaluations) = 4
  /\ SignalAt = {2, 4}
  /\ evaluations[2].signal.side = "long"
  /\ evaluations[4].signal.side = "short"
  /\ Bullish(3)

\* the scenario: fast period 2, slow period 3, prices 1, 2, 3, 10, 1
Scenario ==
  /\ strat.kind = "EMA_Cross"
  /\ strat.fastEMA.period = 2
  /\ strat.slowEMA.period = 3
  /\ [i \in 1..Len(evaluations) |-> evaluations[i].price] = <<1, 2, 3, 10, 1>>

\* C25 as stated: in the scenario exactly one signal is emitted, at the
\* evaluation where fastEMA first exceeds slowEMA.
C25_OneSignal ==
  Scenario =>
    \E i \in 1..5 :
      /\ SignalAt = {i}
      /\ Bullish(i)
      /\ \A j \in 1..(i - 1) : ~Bullish(j)

\* C25, amended: in the scenario exactly two signals are emitted, a long one
\* at the second evaluation, where fastEMA first exceeds slowEMA, and a short
\* one at the fifth, where fastEMA has fallen below slowEMA.
C25_TwoSignals ==
  Scenario =>
    /\ SignalAt = {2, 5}
    /\ evaluations[2].signal.side = "long"
    /\ ~Bullish(1) /\ Bullish(2)
    /\ evaluations[5].signal.side = "short"
    /\ Bullish(4) /\ RatLess(evaluations[5].fastEMA, evaluations[5].slowEMA)

C25_Witness ==
  /\ Scenario
  /\ evaluations[5].fastEMA = Rat(257, 81)
  /\ evaluations[5].slowEMA = Rat(57, 16)
  /\ evaluations[5].signal # NoSignal

\* C26: a Multi-Indicator strategy emits a signal only in an evaluation in
\* which EMA, RSI and ATR have all produced a value, the price is on the
\* signalled side of the EMA, the RSI is at the matching extreme and the ATR
\* is above price * 0.001 * minATRMultiple.
C26_AllThreeAgree ==
  strat.kind = "MultiIndicator" =>
    \A i \in SignalAt :
      LET e == evaluations[i]
      IN  /\ e.fastEMA # Null /\ e.rsi # Null /\ e.atr # Null
          /\ RatLess(atrThreshold(strat, e.price), e.atr)
          /\ IF e.signal.side = "long"
             THEN RatLess(e.fastEMA, RatOf(e.price)) /\ RatLeq(e.rsi, RatOf(strat.rsiOversold))
             ELSE RatLess(RatOf(e.price), e.fastEMA)
                    /\ RatLeq(RatOf(strat.rsiOverbought), e.rsi)

\* the requests the worker has handled so far, in the order they were sent
Handled == SubSeq(posted, 1, Len(posted) - Len(inbox))

\* the ticks of the buildCandle requests for a key among q, in order
TicksFor(q, key) ==
  LET forKey == SelectSeq(q, LAMBDA m : keyOf(m) = key)
  IN  [i \in 1..Len(forKey) |-> forKey[i].tick]

MessageKeys == {builderKey("EURUSD", tf) : tf \in MessageTimeframes}

\* C28: every request the worker has handled has exactly one response, which
\* carries the id of that request, and a request not yet handled has none;
\* the ticks applied to the candle state of a key are those of the handled
\* buildCandle requests for that key, in the order they were sent; and a
\* buildCandle request leaves the open candle of every other key as it was.
C28_OneResponseInOrder ==
  [][/\ \A k \in 1..Len(posted') :
          LET answers == {i \in 1..Len(outbox') : outbox'[i].re = k}
          IN  IF k <= Len(Handled')
              THEN /\ Cardinality(answers) = 1
                   /\ \A i \in answers : outbox'[i].id = posted'[k].id
              ELSE answers = {}
     /\ \A key \in MessageKeys : ticksOf(ingested', key) = TicksFor(Handled', key)
     /\ (inbox # <<>> /\ inbox' = Tail(inbox) /\ Head(inbox).type = "buildCandle") =>
          \A key \in MessageKeys \ {keyOf(Head(inbox))} :
            openCandle(candleBuilders', heap', key) = openCandle(candleBuilders, heap, key)]_vars

C28_Witness ==
  /\ Len(outbox) = 3
  /\ inbox = <<>>
  /\ keyOf(posted[1]) = "EURUSD_1m"
  /\ keyOf(posted[2]) = "EURUSD_1s"
  /\ keyOf(posted[3]) = "EURUSD_1m"
  /\ posted[1].tick.price # posted[3].tick.price
  /\ posted[3].id = 3
  /\ outbox[3].id = 3
  /\ outbox[3].result.current.close = posted[3].tick.price
  /\ outbox[3].result.current.tickCount = 2

\* C29: cancelJob on an id that is not a live job (never handed out, or
\* cancelled and not handed out again since) returns false and leaves the job
\* map and every pending timer as they were; cancelJob on a live job removes
\* that job and its timer only, and a second cancelJob on the same id right
\* after it returns false and changes nothing.
C29_CancelIdempotent ==
  [][lastEvent'.type = "cancelJob" =>
       LET id == lastEvent'.job
           again == cancelJob([jobs |-> jobs', timeouts |-> timeouts'], id)
       IN  /\ id \notin DOMAIN jobs =>
                ~lastEvent'.ret /\ jobs' = jobs /\ timeouts' = timeouts
           /\ id \in DOMAIN jobs =>
                /\ lastEvent'.ret
                /\ jobs' = Remove(jobs, id)
                /\ \A t \in DOMAIN timeouts \ {jobs[id].timeoutId} :
                     t \in DOMAIN timeouts' /\ timeouts'[t] = timeouts[t]
           /\ ~again.ret /\ again.jobs = jobs' /\ again.timeouts = timeouts']_vars

C29_Witness ==
  /\ lastEvent.type = "cancelJob"
  /\ ~lastEvent.ret
  /\ lastEvent.job \in DOMAIN cancelledIds
  /\ jobs # EmptyMap
  /\ \E t \in DOMAIN timeouts : timeouts[t].closure.jobId # lastEvent.job

\* C30: every firing appends one sample to the timing history, with errorMs
\* the corrected time at the firing minus the boundary the fired timer was
\* armed for; the history never holds more than 1000 samples, and after the
\* firing it holds the samples it held before, less the oldest one if there
\* were 1000, in the same order and followed by the new sample.
C30_TimingHistory ==
  [][(lastEvent'.type = "fire" /\ nFired' = nFired + 1) =>
       LET n == Len(timingErrors')
           sample == timingErrors'[n]
       IN  /\ n = Min(Len(timingErrors) + 1, 1000)
           /\ sample.errorMs = getServerTime - timeouts[lastEvent'.timer].expectedTime
           /\ sample.expectedTime = timeouts[lastEvent'.timer].expectedTime
           /\ SubSeq(timingErrors', 1, n - 1) = LastN(timingErrors, n - 1)]_vars

C30_Witness ==
  /\ lastEvent.type = "fire"
  /\ Len(timingErrors) = 1000
  /\ timingErrors[1].expectedTime = 3000
  /\ timingErrors[999].expectedTime = 1001000
  /\ timingErrors[1000].expectedTime = 1002000
  /\ timingErrors[1000].errorMs = -3

\* C33: the pending scheduler timers and the entries of the job map
\* correspond one to one: the timer a live job records is pending, every
\* pending timer is the recorded timer of the job it was armed for, and that
\* job is in the map.
C33_TimersMatchJobs ==
  /\ \A j \in DOMAIN jobs : jobs[j].timeoutId \in DOMAIN timeouts
  /\ \A t \in DOMAIN timeouts :
       /\ timeouts[t].closure.jobId \in DOMAIN jobs
       /\ jobs[timeouts[t].closure.jobId].timeoutId = t

\* C32: a firing that re-arms its job arms it for a boundary later than the
\* one it fired for, whatever the clock offset has done in between.
C32_BoundariesIncrease ==
  [][(lastEvent'.type = "fire" /\ nFired' = nFired + 1 /\ lastEvent'.rearmed) =>
       jobs'[lastEvent'.job].nextExecution > lastEvent'.expectedTime]_vars

\* the history a getTimingStats call read holds 1000 firings of jobs with
\* offset 5, each within 20 ms of the instant its timer was armed for
JitterWithin20 ==
  /\ fnArgs.fn = "getTimingStats"
  /\ Len(fnArgs.timingErrors) = 1000
  /\ \A i \in 1..1000 :
       LET e == fnArgs.timingErrors[i]
       IN  e.actualTime - (e.expectedTime - 5) \in -20..20

C34_NoReconnectAfterDisconnect ==
  [][(ws = 0 /\ Len(sockets) > 0 /\ lastEvent'.type # "connect") =>
       /\ DOMAIN reconnectTimers' \subseteq DOMAIN reconnectTimers
       /\ Len(sockets') = Len(sockets)]_vars

\* how often handler h occurs in a list of handlers
Occurrences(handlers, h) == Cardinality({i \in 1..Len(handlers) : handlers[i] = h})

\* C35: when a handler unsubscribes during a dispatch, every other handler
\* registered at the start of the dispatch that was not itself unsubscribed
\* ("hOnce" is the only handler that unsubscribes, and it removes itself) is
\* still invoked once for the tick.
C35_OthersStillInvoked ==
  lastEvent.type = "tick" =>
    \A h \in Handlers \ {"hOnce"} :
      Occurrences([i \in 1..Len(lastEvent.invoked) |-> lastEvent.invoked[i].handler], h)
        = Occurrences(lastEvent.registered, h)

\* C36: a handler that throws during a dispatch no earlier handler has
\* disturbed by unsubscribing is followed by the handler registered after it;
\* the tick stays the newest of the buffer, and the connection is as it was,
\* so that the next tick message is processed like any other.
C36_ThrowingHandlerContained ==
  [][(lastEvent'.type = "tick" /\ nMessages' = nMessages + 1) =>
       LET ev == lastEvent'
       IN  /\ \A k \in 1..Len(ev.invoked) :
                (/\ ev.invoked[k].handler = "hThrows"
                 /\ \A j \in 1..(k - 1) : ev.invoked[j].handler # "hOnce"
                 /\ k < Len(ev.registered)) =>
                  /\ Len(ev.invoked) > k
                  /\ ev.invoked[k + 1].handler = ev.registered[k + 1]
           /\ tickBuffers'[ev.symbol][Len(tickBuffers'[ev.symbol])] = ev.tick
           /\ pushed'[ev.symbol] = Append(pushed[ev.symbol], ev.tick)
           /\ sockets' = sockets
           /\ ws' = ws
           /\ isConnected' = isConnected]_vars

C36_Witness ==
  /\ lastEvent.type = "tick"
  /\ Len(lastEvent.invoked) = 2
  /\ lastEvent.invoked[1].handler = "hThrows"
  /\ lastEvent.invoked[2].handler = "hLog"
  /\ Len(pushed[lastEvent.symbol]) = 2
  /\ Len(tickBuffers[lastEvent.symbol]) = 2

\* C37: after reset() a strategy emits, evaluation by evaluation, the
\* signals a freshly constructed instance with the same parameters emits.
C37_ResetStrategyIsFresh ==
  lastEvent.type = "evaluateBoth" => outputs = twinOutputs

\* the completed candles emitted for a key, in the order of their emission
CompletedOf(key) == SelectSeq(emitted, LAMBDA e : e.key = key)

\* the timestamps of these ticks never go back
NonDecreasing(ticks) == \A i \in 1..(Len(ticks) - 1) : ticks[i].ts <= ticks[i + 1].ts

\* C38: for a key whose ticks came with non-decreasing timestamps, the
\* completed candles have strictly increasing ts_open, and the open candle
\* starts after every one of them.
C38_CompletedInOrder ==
  \A key \in DOMAIN ingested :
    NonDecreasing(ingested[key]) =>
      LET done == CompletedOf(key)
      IN  /\ \A i \in 1..(Len(done) - 1) : done[i].candle.ts_open < done[i + 1].candle.ts_open
          /\ \A i \in 1..Len(done) :
               done[i].candle.ts_open < openCandle(candleBuilders, heap, key).ts_open

C38_Witness ==
  /\ Len(ticksOf(ingested, "EURUSD_1s")) = 4
  /\ NonDecreasing(ingested["EURUSD_1s"])
  /\ Len(CompletedOf("EURUSD_1s")) = 2
  /\ openCandle(candleBuilders, heap, "EURUSD_1s").ts_open = 3000
  /\ openCandle(candleBuilders, heap, "EURUSD_1s").tickCount = 2

\* C39: for every key, the tick counts of the completed candles emitted for
\* it and of its open candle add up to the number of ticks ingested for it.
C39_TicksConserved ==
  \A key \in DOMAIN ingested \cup DOMAIN candleBuilders :
    LET done == CompletedOf(key)
    IN  Sum([i \in 1..Len(done) |-> done[i].candle.tickCount])
          + openCandle(candleBuilders, heap, key).tickCount
        = Len(ticksOf(ingested, key))

C39_Witness ==
  /\ Len(ticksOf(ingested, "EURUSD_1s")) = 4
  /\ ~NonDecreasing(ingested["EURUSD_1s"])
  /\ Len(CompletedOf("EURUSD_1s")) = 2
  /\ openCandle(candleBuilders, heap, "EURUSD_1s").tickCount = 2

\* the k-th operation of the batch last processed fails: its type is none
\* of the three, or it initialises an indicator of an unknown type, or it
\* updates an indicator that neither existed before the batch nor was
\* initialised by an earlier operation of it
FailsAt(k) ==
  LET ops == fnArgs.operations
      valid(j) == ops[j].type = "initIndicator" /\ ops[j].indicatorType \in IndicatorTypes
  IN  \/ ops[k].type \notin {"initIndicator", "updateIndicator", "buildCandle"}
      \/ ops[k].type = "initIndicator" /\ ~valid(k)
      \/ /\ ops[k].type = "updateIndicator"
         /\ ops[k].id \notin DOMAIN fnArgs.before.indicators
         /\ ~\E j \in 1..(k - 1) : valid(j) /\ ops[j].id = ops[k].id

\* the operations of the batch last processed that do not fail
Succeeding ==
  LET ops == fnArgs.operations
      RECURSIVE keep(_)
      keep(k) == IF k > Len(ops) THEN <<>>
                 ELSE IF FailsAt(k) THEN keep(k + 1) ELSE <<ops[k]>> \o keep(k + 1)
  IN  keep(1)

\* C40: batchProcess returns one result per operation, in order, carrying the
\* operation's operationId; a failing operation yields success = false and
\* the others succeed; and the worker ends in the state, with the results for
\* the other operations, that the batch without its failing operations gives.
C40_BatchIsolatesFailures ==
  lastEvent.type = "batchProcess" =>
    LET ops == fnArgs.operations
        alone == batchProcess(fnArgs.before, Succeeding, 1, <<>>)
    IN  /\ Len(fnResult) = Len(ops)
        /\ \A k \in 1..Len(ops) :
             /\ fnResult[k].operationId = ops[k].operationId
             /\ FailsAt(k) <=> fnResult[k].result.success = "false"
        /\ workerState = alone.st
        /\ SelectSeq(fnResult, LAMBDA r : r.result.success # "false") = alone.results

C40_Witness ==
  /\ lastEvent.type = "batchProcess"
  /\ Len(fnArgs.operations) = 3
  /\ fnArgs.operations[1].type = "updateIndicator"
  /\ fnArgs.operations[2].type = "compact"
  /\ fnArgs.operations[3].type = "updateIndicator"
  /\ fnArgs.before.indicators # EmptyMap
  /\ fnResult[1].result.success = "true"
  /\ fnResult[2].result.success = "false"
  /\ fnResult[3].result.success = "true"
  /\ fnResult[3].result.result # fnResult[1].result.result

====
